---- MODULE Spec2Model ----
(***************************************************************************)
(* A model of dynamorm_py.table.Table:                                     *)
(*   - batch_get / batch_write: key validation, chunking, resubmission of  *)
(*     unprocessed items, capped exponential backoff,                      *)
(*     BatchRetryExceededError;                                            *)
(*   - query_with_retry / scan_with_retry: retry-until-condition loop;     *)
(*   - scan_all_segments: parallel segment scans on a bounded pool;        *)
(*   - the cursor codec, and query / scan with cursors and pagination;     *)
(*   - transact_write, update and UpdateBuilder.execute;                   *)
(*   - the rendering of expressions with their placeholders;               *)
(*   - the construction of a Table and envelope encryption on put / get;   *)
(*   - the mapping of the client's errors, and ModelDefinition.            *)
(* Durations are in milliseconds for the batch backoff (0.05 s = 50 ms)    *)
(* and in abstract ticks for the configurable delays of the read retries.  *)
(***************************************************************************)
EXTENDS Integers, Sequences, FiniteSets, TLC

VARIABLES
    args,          \* the arguments of the call under way
    store,         \* the behaviour of the remote store stub of this run
    pc,            \* position of the calling thread inside the operation
    outcome,       \* how the call ended: none / return / raise
    calls,         \* number of remote calls issued so far
    sleeps,        \* durations handed to the injected sleep, in call order
    \* ---- batch_get / batch_write
    chunks,        \* _chunked(normalized | requests, max)
    chunk_idx,     \* index of the chunk being processed (0 = none yet)
    pending,       \* pending_keys / pending of the current chunk
    attempts,      \* attempts of the current chunk
    out,           \* batch_get's accumulated items
    sent,          \* per supplied item: in how many remote calls it was carried
    last_req,      \* items of the most recent remote call
    last_resp,     \* unprocessed items of the most recent response
    chunk_calls,   \* remote calls issued for the current chunk
    chunk_sleeps,  \* sleeps invoked for the current chunk, in order
    \* ---- query_with_retry / scan_with_retry
    attempt,       \* loop variable of `for attempt in range(max_retries + 1)`
    delay,         \* delay
    last_page,     \* last_page
    result,        \* the page the call returned
    log,           \* per read so far: what the read and verify did
    \* ---- scan_all_segments
    seg_status,    \* per segment task: unsubmitted/queued/running/done/failed
    seg_cursor,    \* per segment worker: its local cursor
    seg_out,       \* per segment worker: its local out
    seg_error,     \* per segment task: the exception its future holds
    seg_reqs,      \* per segment worker: the scans it issued, in order
    next_seg,      \* the segment main submits or collects next
    results,       \* results
    completed,     \* segments in the order their tasks finished
    \* ---- query / scan / cursor codec / transact_write / update
    cur,           \* the cursor string at hand (encoded, or to pass next)
    decoded,       \* what decode_cursor made of it
    reqs,          \* the requests sent to the store, in order
    all_items,     \* the items of the pages obtained so far, in order
    reason_codes,  \* reason_codes of the TransactionCanceledError raised
    \* ---- Table construction and envelope encryption
    table,         \* the Table object: its fields after __init__
    kms_calls      \* the calls made to the key-management client, in order

batchVars == <<chunks, chunk_idx, pending, attempts, out, sent, last_req,
               last_resp, chunk_calls, chunk_sleeps>>
commonVars == <<args, store, pc, outcome, calls, sleeps>>
retryVars == <<attempt, delay, last_page, result, log>>
segVars == <<seg_status, seg_cursor, seg_out, seg_error, seg_reqs, next_seg, results,
             completed>>
opVars == <<cur, decoded, reqs, all_items, reason_codes>>
kmsVars == <<table, kms_calls>>
vars == <<commonVars, batchVars, retryVars, segVars, opVars, kmsVars>>

\* ------------------------------------------------------------------ bounds
MaxChunks == 2          \* full chunks a batch may span (plus a remainder)
MaxRetries == 7         \* largest max_retries of a batch call
MaxRetriesAny == 2      \* largest max_retries against the free store
MaxUnprocessed == 2     \* size of the fixed unprocessed set of the stuck store
MaxRetriesRead == 2     \* largest max_retries of query/scan_with_retry
MaxSegments == 3        \* largest total_segments of scan_all_segments
MaxPages == 3           \* most pages a paginated query / scan goes through
MaxActions == 3         \* longest transaction whose actions are enumerated
MaxPuts == 2            \* most writes made on one Table
MaxFields == 3          \* most fields of a record type handed to from_dataclass

\* ------------------------------------------------- constants of the program
BatchGetMax == 100
BatchWriteMax == 25
TransactMax == 100

\* ------------------------------------------------------------------ helpers
Min(a, b) == IF a <= b THEN a ELSE b

Range(s) == {s[i] : i \in 1..Len(s)}

CeilDiv(n, d) == (n + d - 1) \div d

None == "None"
NoPage == [kind |-> "none", read |-> 0, empty |-> TRUE, error |-> None, sent |-> FALSE]
\* The Table of a model without encrypted fields, built without a key.
PlainTable == [constructed |-> TRUE, table_name |-> "t", kms_key_arn |-> None,
               kms_client |-> None]

NoOutcome == [kind |-> "none", error |-> None, operation |-> None, unprocessed_count |-> 0]
Return == [kind |-> "return", error |-> None, operation |-> None, unprocessed_count |-> 0]
Raise(e) == [kind |-> "raise", error |-> e, operation |-> None, unprocessed_count |-> 0]
BatchRetryExceededError(operation, n) ==
    [kind |-> "raise", error |-> "BatchRetryExceededError",
     operation |-> operation, unprocessed_count |-> n]

\* _map_client_error: the error kind a store failure code becomes.
MapClientError(code) ==
    CASE code = "ConditionalCheckFailedException" -> "ConditionFailedError"
      [] code = "ValidationException" -> "ValidationError"
      [] code = "ResourceNotFoundException" -> "NotFoundError"
      [] OTHER -> "AwsError"

\* _backoff_seconds(attempt), in milliseconds.
BackoffOffByOne(n) ==
    LET ms == 50 * (2 ^ n) IN IF ms > 1000 THEN 1000 ELSE ms
BackoffSeconds(n) ==
    LET ms == 50 * (2 ^ (n - 1)) IN IF ms > 1000 THEN 1000 ELSE ms

\* _chunked(items, size): items[i : i + size] for i in range(0, len, size).
ChunkedOverlong(items, size) ==
    [k \in 1..CeilDiv(Len(items), size + 1) |->
        SubSeq(items, (k - 1) * (size + 1) + 1, Min(k * (size + 1), Len(items)))]
Chunked(items, size) ==
    [k \in 1..CeilDiv(Len(items), size) |->
        SubSeq(items, (k - 1) * size + 1, Min(k * size, Len(items)))]

\* `if attempts >= max_retries: raise BatchRetryExceededError(...)`.
BudgetExceededLate(n, max) == n > max
BudgetExceeded(n, max) == n >= max

\* resp.get("UnprocessedKeys" | "UnprocessedItems", {}).get(table, ...) or []
UnprocessedDropped(resp) == <<>>
Unprocessed(resp) == resp.unprocessed

BatchMax(op) == IF op = "batch_get" THEN BatchGetMax ELSE BatchWriteMax

\* `attempts = 0` at the head of each chunk.
AttemptsCarried(n) == n
AttemptsAtChunkStart(n) == 0

\* ------------------------------------------------------- the store (stub)
\* What a batch call may answer: the unprocessed items, or a failure code.
\*   ack  : every call reports zero unprocessed items
\*   same : every call reports the same fixed unprocessed items
\*   any  : nothing, the whole request, all but its first item, or a failure
Ok(unprocessed) == [kind |-> "ok", unprocessed |-> unprocessed, code |-> None]
Fail(code) == [kind |-> "error", unprocessed |-> <<>>, code |-> code]

BatchResponses(st, req) ==
    CASE st.mode = "ack" -> {Ok(<<>>)}
      [] st.mode = "same" -> {Ok(st.unprocessed)}
      [] OTHER -> {Ok(<<>>), Ok(req), Ok(Tail(req)),
                   Fail("ProvisionedThroughputExceededException")}

\* ---------------------------------------------------------------- batch init
ItemCounts(max) ==
    {0, 1} \cup {k * max + d : k \in 1..MaxChunks, d \in {-1, 0, 1}}

BatchArgs ==
    {[op |-> o, items |-> [i \in 1..n |-> i], max_retries |-> r, has_sleep |-> s,
      has_sk |-> TRUE, bad_at |-> 0, bad_kind |-> None] :
        o \in {"batch_get", "batch_write"}, n \in 0..(MaxChunks * BatchGetMax + 1),
        r \in -1..MaxRetries, s \in BOOLEAN}

BatchScenario(a, st) ==
    /\ Len(a.items) \in ItemCounts(BatchMax(a.op))
    /\ CASE st.mode = "ack" -> st.unprocessed = <<>>
         [] st.mode = "same" ->
               /\ Len(a.items) \in {1, BatchMax(a.op) + 1}
               /\ Len(st.unprocessed) \in 1..Min(MaxUnprocessed, Len(a.items))
               /\ st.unprocessed = SubSeq(a.items, 1, Len(st.unprocessed))
         [] OTHER ->
               /\ Len(a.items) \in {1, BatchMax(a.op) + 1}
               /\ a.max_retries <= MaxRetriesAny
               /\ st.unprocessed = <<>>

BatchStores ==
    {[mode |-> m, unprocessed |-> [i \in 1..n |-> i]] :
        m \in {"ack", "same", "any"}, n \in 0..MaxUnprocessed}

InitBatch ==
    /\ args \in BatchArgs
    /\ store \in BatchStores
    /\ BatchScenario(args, store)
    /\ pc = "enter"
    /\ outcome = NoOutcome
    /\ calls = 0
    /\ sleeps = <<>>
    /\ chunks = <<>>
    /\ chunk_idx = 0
    /\ pending = <<>>
    /\ attempts = 0
    /\ out = <<>>
    /\ sent = [i \in 1..Len(args.items) |-> 0]
    /\ last_req = <<>>
    /\ last_resp = <<>>
    /\ chunk_calls = 0
    /\ chunk_sleeps = <<>>
    /\ attempt = 0
    /\ delay = 0
    /\ last_page = NoPage
    /\ result = NoPage
    /\ log = <<>>
    /\ seg_status = <<>>
    /\ seg_cursor = <<>>
    /\ seg_out = <<>>
    /\ seg_error = <<>>
    /\ seg_reqs = <<>>
    /\ next_seg = 0
    /\ results = <<>>
    /\ completed = <<>>
    /\ cur = [kind |-> "none"]
    /\ decoded = [ok |-> FALSE]
    /\ reqs = <<>>
    /\ all_items = <<>>
    /\ reason_codes = <<>>
    /\ table = PlainTable
    /\ kms_calls = <<>>

\* ---------------------------------------------------------------- batch keys
\* Key i of a call is well formed unless i = bad_at; bad_kind tells what is
\* wrong with that key (for batch_write the keys are its deletes):
\*   shape      : a tuple of the wrong length, or no tuple on a pk+sk model
\*   sk_given   : (pk, sk) with sk not None on a pk-only model
\*   pk_none    : pk is None
\*   sk_missing : (pk, None) on a pk+sk model
InvalidKinds(has_sk) ==
    IF has_sk THEN {"shape", "pk_none", "sk_missing"}
    ELSE {"shape", "sk_given", "pk_none"}

\* The loop over the keys at the head of batch_get / batch_write raises.
ShapeRejected(a) == a.bad_at > 0 /\ a.bad_kind \in {"shape", "sk_given"}

\* _to_key raises for one of these keys.
ToKeyRaises(a, keys) ==
    /\ a.bad_at \in Range(keys)
    /\ a.bad_kind \in {"pk_none", "sk_missing"}

\* What stops the call before its chunk loop: batch_write builds every
\* request, _to_key included, first; batch_get only normalises the tuples.
RejectedOnEntry(a) ==
    \/ ShapeRejected(a)
    \/ a.op = "batch_write" /\ ToKeyRaises(a, a.items)

BatchKeyArgs ==
    UNION {{[op |-> o, items |-> [i \in 1..n |-> i], max_retries |-> r,
             has_sleep |-> FALSE, has_sk |-> h, bad_at |-> b,
             bad_kind |-> IF b = 0 THEN None ELSE k] :
               o \in {"batch_get", "batch_write"},
               n \in {0, 1, BatchMax("batch_get") + 1},
               r \in -1..1, b \in 0..(BatchMax("batch_get") + 1),
               k \in InvalidKinds(h)} : h \in BOOLEAN}

BatchKeyScenario(a, st) ==
    /\ Len(a.items) \in {0, 1, BatchMax(a.op) + 1}
    /\ a.bad_at \in {0} \cup ({1, Len(a.items)} \cap DOMAIN a.items)
    /\ st.mode \in {"ack", "any"}
    /\ st.unprocessed = <<>>

InitBatchKeys ==
    /\ args \in BatchKeyArgs
    /\ store \in BatchStores
    /\ BatchKeyScenario(args, store)
    /\ pc = "enter"
    /\ outcome = NoOutcome
    /\ calls = 0
    /\ sleeps = <<>>
    /\ chunks = <<>>
    /\ chunk_idx = 0
    /\ pending = <<>>
    /\ attempts = 0
    /\ out = <<>>
    /\ sent = [i \in 1..Len(args.items) |-> 0]
    /\ last_req = <<>>
    /\ last_resp = <<>>
    /\ chunk_calls = 0
    /\ chunk_sleeps = <<>>
    /\ attempt = 0
    /\ delay = 0
    /\ last_page = NoPage
    /\ result = NoPage
    /\ log = <<>>
    /\ seg_status = <<>>
    /\ seg_cursor = <<>>
    /\ seg_out = <<>>
    /\ seg_error = <<>>
    /\ seg_reqs = <<>>
    /\ next_seg = 0
    /\ results = <<>>
    /\ completed = <<>>
    /\ cur = [kind |-> "none"]
    /\ decoded = [ok |-> FALSE]
    /\ reqs = <<>>
    /\ all_items = <<>>
    /\ reason_codes = <<>>
    /\ table = PlainTable
    /\ kms_calls = <<>>

\* -------------------------------------------------------------- batch steps
\* Entry of batch_get / batch_write up to the chunk loop: the max_retries
\* check, batch_get's early return on no keys, the loop over the keys (with
\* batch_write's _to_key of every delete) and the chunking.
BatchEnter ==
    /\ pc = "enter"
    /\ IF args.max_retries < 0
       THEN /\ pc' = "done"
            /\ outcome' = Raise("ValidationError")
            /\ UNCHANGED chunks
       ELSE IF args.op = "batch_get" /\ args.items = <<>>
       THEN /\ pc' = "done"
            /\ outcome' = Return
            /\ UNCHANGED chunks
       ELSE IF RejectedOnEntry(args)
       THEN /\ pc' = "done"
            /\ outcome' = Raise("ValidationError")
            /\ UNCHANGED chunks
       ELSE /\ pc' = "for_chunk"
            /\ chunks' = Chunked(args.items, BatchMax(args.op))
            /\ UNCHANGED outcome
    /\ UNCHANGED <<args, store, calls, sleeps, chunk_idx, pending, attempts, out,
                   sent, last_req, last_resp, chunk_calls, chunk_sleeps>>
    /\ UNCHANGED <<retryVars, segVars, opVars, kmsVars>>

\* `for chunk in _chunked(...)`: take the next chunk with attempts = 0, or
\* return when the chunks are exhausted. batch_get turns the chunk's keys
\* into wire keys with _to_key here, which raises for a key without pk or sk.
BatchNextChunk ==
    /\ pc = "for_chunk"
    /\ IF chunk_idx < Len(chunks)
          /\ args.op = "batch_get" /\ ToKeyRaises(args, chunks[chunk_idx + 1])
       THEN /\ pc' = "done"
            /\ outcome' = Raise("ValidationError")
            /\ UNCHANGED <<chunk_idx, pending, attempts, chunk_calls, chunk_sleeps>>
       ELSE IF chunk_idx < Len(chunks)
       THEN /\ chunk_idx' = chunk_idx + 1
            /\ pending' = chunks[chunk_idx + 1]
            /\ attempts' = AttemptsAtChunkStart(attempts)
            /\ chunk_calls' = 0
            /\ chunk_sleeps' = <<>>
            /\ pc' = "while_pending"
            /\ UNCHANGED outcome
       ELSE /\ pc' = "done"
            /\ outcome' = Return
            /\ UNCHANGED <<chunk_idx, pending, attempts, chunk_calls, chunk_sleeps>>
    /\ UNCHANGED <<args, store, calls, sleeps, chunks, out, sent, last_req, last_resp>>
    /\ UNCHANGED <<retryVars, segVars, opVars, kmsVars>>

\* One pass of `while pending`: the remote call with the pending items, then
\* the handling of its unprocessed items (raise, or count, sleep and loop).
BatchCall ==
    /\ pc = "while_pending"
    /\ pending # <<>>
    /\ \E resp \in BatchResponses(store, pending) :
        /\ calls' = calls + 1
        /\ chunk_calls' = chunk_calls + 1
        /\ last_req' = pending
        /\ sent' = [i \in DOMAIN sent |->
                      sent[i] + Cardinality({j \in 1..Len(pending) : pending[j] = i})]
        /\ IF resp.kind = "error"
           THEN /\ pc' = "done"
                /\ outcome' = Raise(MapClientError(resp.code))
                /\ UNCHANGED <<pending, attempts, out, last_resp, sleeps, chunk_sleeps>>
           ELSE /\ last_resp' = resp.unprocessed
                /\ out' = IF args.op = "batch_get"
                          THEN out \o SelectSeq(pending,
                                        LAMBDA k : k \notin Range(resp.unprocessed))
                          ELSE out
                /\ pending' = Unprocessed(resp)
                /\ IF Unprocessed(resp) = <<>>
                   THEN /\ pc' = "for_chunk"
                        /\ UNCHANGED <<attempts, outcome, sleeps, chunk_sleeps>>
                   ELSE IF BudgetExceeded(attempts, args.max_retries)
                   THEN /\ pc' = "done"
                        /\ outcome' = BatchRetryExceededError(args.op,
                                                              Len(Unprocessed(resp)))
                        /\ UNCHANGED <<attempts, sleeps, chunk_sleeps>>
                   ELSE /\ attempts' = attempts + 1
                        /\ IF args.has_sleep
                           THEN /\ sleeps' = Append(sleeps, BackoffSeconds(attempts + 1))
                                /\ chunk_sleeps' =
                                      Append(chunk_sleeps, BackoffSeconds(attempts + 1))
                           ELSE UNCHANGED <<sleeps, chunk_sleeps>>
                        /\ pc' = "while_pending"
                        /\ UNCHANGED outcome
    /\ UNCHANGED <<args, store, chunks, chunk_idx>>
    /\ UNCHANGED <<retryVars, segVars, opVars, kmsVars>>

NextBatch == BatchEnter \/ BatchNextChunk \/ BatchCall

SpecBatch == InitBatch /\ [][NextBatch]_vars

\* The calls are made one after the other without pause between the steps:
\* a call that can take a step takes it.
SpecBatchFair == SpecBatch /\ WF_vars(NextBatch)

\* The same calls with keys that may be invalid.
SpecBatchKeys == InitBatchKeys /\ [][NextBatch]_vars

\* ------------------------------------------------------------ batch claims
\* C1: against a store that reports zero unprocessed items on every call,
\* batch_get (max 100) and batch_write (max 25) with N items issue exactly
\* ceil(N/max) remote calls, every call carries at most max items, every
\* supplied item is carried by exactly one call, and sleep is never invoked.
C1_ChunkedCalls ==
    (store.mode = "ack" /\ args.max_retries >= 0) =>
        /\ Len(last_req) <= BatchMax(args.op)
        /\ sleeps = <<>>
        /\ calls <= CeilDiv(Len(args.items), BatchMax(args.op))
        /\ pc = "done" =>
              /\ outcome = Return
              /\ calls = CeilDiv(Len(args.items), BatchMax(args.op))
              /\ \A i \in 1..Len(args.items) : sent[i] = 1

C1_Witness ==
    /\ store.mode = "ack"
    /\ pc = "done"
    /\ outcome = Return
    /\ Len(args.items) = 2 * BatchMax(args.op) + 1
    /\ calls = 3
    /\ Len(last_req) = 1

C3_Resubmitted ==
    /\ (calls' = calls + 1 /\ last_resp # <<>>) => last_req' = last_resp
    /\ (chunk_idx' # chunk_idx /\ chunk_idx > 0) => last_resp = <<>>

C3_Kept ==
    /\ (pc = "done" /\ outcome.kind = "return") => last_resp = <<>>
    /\ pc = "for_chunk" => last_resp = <<>>
    /\ (last_resp # <<>> /\ pc = "while_pending") => pending = last_resp
    /\ (last_resp # <<>> /\ pc = "done") =>
          \/ outcome = BatchRetryExceededError(args.op, Len(last_resp))
          \/ /\ outcome = Raise("AwsError")
             /\ last_req = last_resp

\* C3 as one formula: every step resubmits what was reported unprocessed and
\* leaves the state with nothing dropped.
C3_NeverDropped == [][C3_Resubmitted /\ C3_Kept']_vars

C3_Witness ==
    /\ store.mode = "any"
    /\ pc = "done"
    /\ outcome = Return
    /\ chunk_idx = 2
    /\ calls = 4
    /\ sent[2] = 2
    /\ sent[1] = 1

\* C4: within one chunk the k-th backoff sleep is invoked with
\* min(1000 ms, 50 ms * 2^(k-1)): 50, 100, 200, 400, 800, 1000, 1000, ...;
\* the sequence is non-decreasing and never exceeds one second.
C4_Expected == <<50, 100, 200, 400, 800, 1000, 1000>>

C4_BackoffSequence ==
    /\ \A k \in 1..Len(chunk_sleeps) :
          /\ chunk_sleeps[k] = Min(1000, 50 * (2 ^ (k - 1)))
          /\ k <= Len(C4_Expected) => chunk_sleeps[k] = C4_Expected[k]
          /\ chunk_sleeps[k] <= 1000
          /\ k > 1 => chunk_sleeps[k - 1] <= chunk_sleeps[k]
    /\ Len(chunk_sleeps) = IF args.has_sleep THEN attempts ELSE 0

C4_Witness ==
    /\ Len(chunk_sleeps) = 7
    /\ chunk_sleeps[6] = 1000
    /\ chunk_sleeps[7] = 1000
    /\ chunk_sleeps[5] = 800

\* ================================================ query/scan_with_retry
\* What one wrapped self.query(...) / self.scan(...) may do. With arguments
\* that fail the read's own validation (invalid cursor, cursor mismatch, GSI
\* with consistent_read, bad limit, unknown index, bad filter) every read
\* raises ValidationError before a request is sent; otherwise the request is
\* sent and the store answers with an empty page, a non-empty page, or a
\* failure code that _map_client_error turns into an error.
PageOf(n, empty) == [kind |-> "page", read |-> n, empty |-> empty, error |-> None, sent |-> TRUE]
Raised(e, wasSent) == [kind |-> "raise", read |-> 0, empty |-> TRUE, error |-> e, sent |-> wasSent]

ReadResults(a, n) ==
    IF ~a.valid
    THEN {Raised("ValidationError", FALSE)}
    ELSE {PageOf(n, TRUE), PageOf(n, FALSE)}
         \cup {Raised(MapClientError(code), TRUE) :
                 code \in {"ProvisionedThroughputExceededException", "ValidationException"}}

\* What the caller's verify(page) may do, when there is one and a page.
VerifyResults(a, r) ==
    IF a.has_verify /\ r.kind = "page" THEN {"true", "false", "raise"} ELSE {"none"}

\* `if verify is not None: if verify(page): return page`
\* `elif not retry_on_empty or page.items: return page`
ReturnsPageUnverified(a, r, v) == r.kind = "page" /\ v # "raise"
ReturnsPageIgnoringEmpty(a, r, v) ==
    /\ r.kind = "page"
    /\ IF a.has_verify THEN v = "true" ELSE TRUE
ReturnsPage(a, r, v) ==
    /\ r.kind = "page"
    /\ IF a.has_verify THEN v = "true" ELSE (~a.retry_on_empty \/ ~r.empty)

\* `except Exception: if not retry_on_error or attempt == max_retries: raise`
PropagatesBeforeFinal(a, n) == ~a.retry_on_error \/ n + 1 = a.max_retries
PropagatesOnlyWhenDisabled(a, n) == ~a.retry_on_error
Propagates(a, n) == ~a.retry_on_error \/ n = a.max_retries

\* `delay = min(max_delay_seconds, delay * backoff_factor)`
NextDelay(a, d) == Min(a.max_delay_seconds, d * a.backoff_factor)

RetryArgs ==
    {[op |-> o, max_retries |-> r, initial_delay_seconds |-> i, max_delay_seconds |-> m,
      backoff_factor |-> f, retry_on_empty |-> e, retry_on_error |-> x,
      has_verify |-> v, valid |-> ok] :
        o \in {"query_with_retry", "scan_with_retry"}, r \in -1..MaxRetriesRead,
        i \in {0, 1, 3}, m \in {2, 5}, f \in {1, 2},
        e \in BOOLEAN, x \in BOOLEAN, v \in BOOLEAN, ok \in BOOLEAN}

InitRetry ==
    /\ args \in RetryArgs
    /\ store = [mode |-> "any", unprocessed |-> <<>>]
    /\ pc = "enter"
    /\ outcome = NoOutcome
    /\ calls = 0
    /\ sleeps = <<>>
    /\ chunks = <<>>
    /\ chunk_idx = 0
    /\ pending = <<>>
    /\ attempts = 0
    /\ out = <<>>
    /\ sent = <<>>
    /\ last_req = <<>>
    /\ last_resp = <<>>
    /\ chunk_calls = 0
    /\ chunk_sleeps = <<>>
    /\ attempt = 0
    /\ delay = 0
    /\ last_page = NoPage
    /\ result = NoPage
    /\ log = <<>>
    /\ seg_status = <<>>
    /\ seg_cursor = <<>>
    /\ seg_out = <<>>
    /\ seg_error = <<>>
    /\ seg_reqs = <<>>
    /\ next_seg = 0
    /\ results = <<>>
    /\ completed = <<>>
    /\ cur = [kind |-> "none"]
    /\ decoded = [ok |-> FALSE]
    /\ reqs = <<>>
    /\ all_items = <<>>
    /\ reason_codes = <<>>
    /\ table = PlainTable
    /\ kms_calls = <<>>

\* Entry: the max_retries check and the initialisation of delay, last_page.
RetryEnter ==
    /\ pc = "enter"
    /\ IF args.max_retries < 0
       THEN /\ pc' = "done"
            /\ outcome' = Raise("ValidationError")
            /\ UNCHANGED delay
       ELSE /\ pc' = "attempt"
            /\ delay' = args.initial_delay_seconds
            /\ UNCHANGED outcome
    /\ UNCHANGED <<args, store, calls, sleeps, attempt, last_page, result, log>>
    /\ UNCHANGED <<batchVars, segVars, opVars, kmsVars>>

\* One iteration of `for attempt in range(max_retries + 1)`: the read, the
\* verify / retry_on_empty decision, the except clause, and the sleep with
\* the delay update that ends a non-final iteration.
RetryAttempt ==
    /\ pc = "attempt"
    /\ \E r \in ReadResults(args, Len(log) + 1) : \E v \in VerifyResults(args, r) :
        LET raised == r.kind = "raise" \/ v = "raise"
            err == IF r.kind = "raise" THEN r.error ELSE "VerifyError"
            slept == attempt < args.max_retries /\ delay > 0
        IN  /\ calls' = IF r.sent THEN calls + 1 ELSE calls
            /\ last_page' = IF r.kind = "page" THEN r ELSE last_page
            /\ IF ~raised /\ ReturnsPage(args, r, v)
               THEN /\ pc' = "done"
                    /\ outcome' = Return
                    /\ result' = r
                    /\ log' = Append(log, [read |-> r, verify |-> v, attempt |-> attempt,
                                           slept |-> FALSE])
                    /\ UNCHANGED <<attempt, delay, sleeps>>
               ELSE IF raised /\ Propagates(args, attempt)
               THEN /\ pc' = "done"
                    /\ outcome' = Raise(err)
                    /\ log' = Append(log, [read |-> r, verify |-> v, attempt |-> attempt,
                                           slept |-> FALSE])
                    /\ UNCHANGED <<attempt, delay, sleeps, result>>
               ELSE /\ sleeps' = IF slept THEN Append(sleeps, delay) ELSE sleeps
                    /\ delay' = IF attempt < args.max_retries
                                THEN NextDelay(args, delay) ELSE delay
                    /\ attempt' = attempt + 1
                    /\ pc' = IF attempt < args.max_retries THEN "attempt" ELSE "after_loop"
                    /\ log' = Append(log, [read |-> r, verify |-> v, attempt |-> attempt,
                                           slept |-> slept])
                    /\ UNCHANGED <<outcome, result>>
    /\ UNCHANGED <<args, store>>
    /\ UNCHANGED <<batchVars, segVars, opVars, kmsVars>>

\* After the loop: `if last_page is None: raise ValidationError(...)`,
\* `return last_page`.
RetryAfterLoop ==
    /\ pc = "after_loop"
    /\ pc' = "done"
    /\ IF last_page = NoPage
       THEN /\ outcome' = Raise("ValidationError")
            /\ UNCHANGED result
       ELSE /\ outcome' = Return
            /\ result' = last_page
    /\ UNCHANGED <<args, store, calls, sleeps, attempt, delay, last_page, log>>
    /\ UNCHANGED <<batchVars, segVars, opVars, kmsVars>>

NextRetry == RetryEnter \/ RetryAttempt \/ RetryAfterLoop

SpecRetry == InitRetry /\ [][NextRetry]_vars

\* ------------------------------------------------------ read-retry claims
Last(q) == q[Len(q)]

PageReads == {k \in 1..Len(log) : log[k].read.kind = "page"}
RaisedReads == {k \in 1..Len(log) : log[k].read.kind = "raise"}
Verified == {k \in 1..Len(log) : log[k].verify = "true"}
LastPageRead == CHOOSE k \in PageReads : \A j \in PageReads : j <= k
FirstPageRead == CHOOSE k \in PageReads : \A j \in PageReads : k <= j

\* The first half of C5: the call returns the first page for which verify
\* returned true, with no read or sleep after it.
C5_FirstVerified ==
    \A k \in Verified :
        /\ k = Len(log)
        /\ outcome = Return
        /\ result = log[k].read
        /\ ~log[k].slept

\* C5 (as claimed): with a verify predicate the call returns the first page
\* for which verify returns true and makes no further read or sleep; if no
\* page satisfies verify within max_retries + 1 reads it returns the page of
\* the last successful read instead of failing.
C5_Original ==
    (args.has_verify /\ args.max_retries >= 0 /\ pc = "done") =>
        /\ C5_FirstVerified
        /\ (/\ Verified = {}
            /\ Len(log) = args.max_retries + 1
            /\ PageReads # {}
            /\ \A k \in 1..Len(log) : log[k].verify # "raise") =>
              /\ outcome = Return
              /\ result = log[LastPageRead].read

\* C5 (amended): ... if no page satisfies verify within max_retries + 1
\* reads, the call returns the page of the final read when the final attempt
\* did not raise; when the final attempt raises, its exception propagates,
\* whether or not earlier reads obtained pages. It returns in no other case.
C5_VerifyOrLastPage ==
    (args.has_verify /\ args.max_retries >= 0 /\ pc = "done") =>
        /\ C5_FirstVerified
        /\ (Verified = {} /\ Len(log) = args.max_retries + 1) =>
              IF Last(log).read.kind = "page" /\ Last(log).verify = "false"
              THEN outcome = Return /\ result = Last(log).read
              ELSE outcome = Raise(IF Last(log).read.kind = "raise"
                                   THEN Last(log).read.error ELSE "VerifyError")
        /\ outcome = Return =>
              \/ Last(log).verify = "true"
              \/ Len(log) = args.max_retries + 1 /\ Last(log).verify = "false"

C5_Witness ==
    /\ args.has_verify
    /\ args.max_retries = 2
    /\ pc = "done"
    /\ outcome = Return
    /\ Len(log) = 3
    /\ Verified = {}
    /\ log[1].verify = "false"
    /\ log[2].read.kind = "raise"
    /\ result = log[3].read

\* C6 (as claimed): without verify, with retry_on_empty the call returns the
\* first non-empty page, having read on while pages were empty, or the last
\* empty page after max_retries + 1 reads; with retry_on_empty off it returns
\* the first page obtained, after exactly one successful read and zero sleeps.
C6_ReturnedPage ==
    /\ result = log[LastPageRead].read
    /\ LastPageRead = Len(log)
    /\ IF args.retry_on_empty
       THEN /\ \A k \in PageReads : k # Len(log) => log[k].read.empty
            /\ result.empty => Len(log) = args.max_retries + 1
       ELSE /\ Cardinality(PageReads) = 1
            /\ result = log[FirstPageRead].read

\* C6 as claimed, for the calls that return.
C6_Original ==
    (~args.has_verify /\ pc = "done" /\ outcome = Return) =>
        /\ C6_ReturnedPage
        /\ ~args.retry_on_empty => sleeps = <<>>

\* C6 (amended): ... with retry_on_empty off it returns the first page
\* obtained, after exactly one successful read; it has slept only after reads
\* that raised and were retried, so zero sleeps when no read raised. When no
\* read raises the call always returns.
C6_EmptyPolicy ==
    (~args.has_verify /\ args.max_retries >= 0 /\ pc = "done") =>
        /\ RaisedReads = {} => outcome = Return
        /\ outcome = Return =>
              /\ C6_ReturnedPage
              /\ ~args.retry_on_empty =>
                    /\ \A k \in 1..Len(log) : log[k].slept => k \in RaisedReads
                    /\ Len(sleeps) <= Cardinality(RaisedReads)
                    /\ RaisedReads = {} => sleeps = <<>>

C6_Witness ==
    /\ ~args.has_verify
    /\ ~args.retry_on_empty
    /\ pc = "done"
    /\ outcome = Return
    /\ Len(log) = 2
    /\ log[1].read.kind = "raise"
    /\ result.empty
    /\ Len(sleeps) = 1

\* C7: when the wrapped read raises on attempt a: if retry_on_error is off or
\* a = max_retries the same exception propagates with no further read or
\* sleep; otherwise the loop sleeps (if the delay is positive) and goes on to
\* another read.
C7_Step ==
    (Len(log') = Len(log) + 1 /\ Last(log').read.kind = "raise") =>
        IF ~args.retry_on_error \/ attempt = args.max_retries
        THEN /\ pc' = "done"
             /\ outcome' = Raise(Last(log').read.error)
             /\ sleeps' = sleeps
             /\ calls' = calls + (IF Last(log').read.sent THEN 1 ELSE 0)
        ELSE /\ pc' = "attempt"
             /\ outcome' = NoOutcome
             /\ attempt' = attempt + 1
             /\ sleeps' = IF delay > 0 THEN Append(sleeps, delay) ELSE sleeps

\* C7 as one formula: every step in which the read raises propagates or retries
\* as described.
C7_RaiseOrRetry == [][C7_Step]_vars

C7_Witness ==
    /\ args.retry_on_error
    /\ args.max_retries = 2
    /\ pc = "done"
    /\ Len(log) = 3
    /\ RaisedReads = {1, 2, 3}
    /\ Len(sleeps) = 2
    /\ outcome = Raise("AwsError")

\* C8 (as claimed): the i-th sleep is invoked with
\* min(max_delay_seconds, initial_delay_seconds * backoff_factor^(i-1)), so
\* for every configuration no sleep is longer than max_delay_seconds.
\* Stated here for the runs in which every read obtained a page.
C8_DelayCapped ==
    RaisedReads = {} =>
    \A i \in 1..Len(sleeps) :
        /\ sleeps[i] = Min(args.max_delay_seconds,
                           args.initial_delay_seconds * (args.backoff_factor ^ (i - 1)))
        /\ sleeps[i] <= args.max_delay_seconds

\* C9 (as claimed): a ValidationError raised by the wrapped query or scan is
\* never retried: the wrapper raises it after exactly one attempt and zero
\* sleeps, for every retry_on_error and max_retries.
C9_ValidationNotRetried ==
    \A k \in 1..Len(log) :
        (log[k].read.kind = "raise" /\ log[k].read.error = "ValidationError") =>
            /\ Len(log) = 1
            /\ pc = "done"
            /\ outcome = Raise("ValidationError")
            /\ sleeps = <<>>

\* ======================================================= cursor codec
\* Python values of a continuation key, tagged by type: text, raw bytes,
\* numbers, dicts (functions from field names) and lists (sequences).
Str(x) == [kind |-> "str", val |-> x]
Bytes(x) == [kind |-> "bytes", val |-> x]
Num(x) == [kind |-> "num", val |-> x]
MapV(f) == [kind |-> "map", val |-> f]
ListV(q) == [kind |-> "list", val |-> q]
NoneV == [kind |-> "none", val |-> <<>>]
Error(e) == [kind |-> "error", val |-> e]

\* resp.get("LastEvaluatedKey") of a response without one.
NoKey == NoneV

\* `if last`: None and the empty dict are false.
Truthy(x) == ~(x.kind = "none" \/ (x.kind = "map" /\ DOMAIN x.val = {}))

\* base64.b64encode(obj).decode("ascii") of the byte strings in use, and
\* base64.b64decode of a text (binascii.Error for any other text).
B64Text == [hi |-> "aGk=", bye |-> "Ynll", x |-> "eA=="]
B64Decode(text) ==
    IF \E b \in DOMAIN B64Text : B64Text[b] = text
    THEN Bytes(CHOOSE b \in DOMAIN B64Text : B64Text[b] = text)
    ELSE Error("binascii.Error")

TypeTag == "__type"
BytesWrapper(b) == MapV((TypeTag :> Str("bytes")) @@ ("b64" :> Str(B64Text[b])))

\* _jsonify: bytes become the tagged wrapper, dicts and lists are mapped.
RECURSIVE jsonify(_)
jsonify(obj) ==
    CASE obj.kind = "bytes" -> BytesWrapper(obj.val)
      [] obj.kind = "map" -> MapV([k \in DOMAIN obj.val |-> jsonify(obj.val[k])])
      [] obj.kind = "list" -> ListV([i \in DOMAIN obj.val |-> jsonify(obj.val[i])])
      [] OTHER -> obj

\* _dejsonify: a dict whose "__type" is "bytes" becomes base64.b64decode of
\* its "b64" (KeyError without one); other dicts and lists are mapped.
IsTagged(obj) ==
    /\ obj.kind = "map"
    /\ TypeTag \in DOMAIN obj.val
    /\ obj.val[TypeTag] = Str("bytes")

RECURSIVE dejsonify(_)
dejsonify(obj) ==
    CASE IsTagged(obj) ->
            IF "b64" \notin DOMAIN obj.val THEN Error("KeyError")
            ELSE IF obj.val["b64"].kind # "str" THEN Error("TypeError")
            ELSE B64Decode(obj.val["b64"].val)
      [] obj.kind = "map" /\ ~IsTagged(obj) ->
            MapV([k \in DOMAIN obj.val |-> dejsonify(obj.val[k])])
      [] obj.kind = "list" -> ListV([i \in DOMAIN obj.val |-> dejsonify(obj.val[i])])
      [] OTHER -> obj

\* An exception raised anywhere inside a nested conversion propagates.
RECURSIVE Raises(_)
Raises(obj) ==
    CASE obj.kind = "error" -> TRUE
      [] obj.kind = "map" -> \E k \in DOMAIN obj.val : Raises(obj.val[k])
      [] obj.kind = "list" -> \E i \in DOMAIN obj.val : Raises(obj.val[i])
      [] OTHER -> FALSE

\* json.dumps(..., sort_keys=True): text for a string, number, null, object
\* (keys in sorted order) or array; TypeError for bytes. json.loads reverses.
RECURSIVE JsonDumps(_)
JsonDumps(obj) ==
    CASE obj.kind = "str" -> [kind |-> "json_string", val |-> obj.val]
      [] obj.kind = "num" -> [kind |-> "json_number", val |-> obj.val]
      [] obj.kind = "none" -> [kind |-> "json_null", val |-> obj.val]
      [] obj.kind = "map" ->
            [kind |-> "json_object", val |-> [k \in DOMAIN obj.val |-> JsonDumps(obj.val[k])]]
      [] obj.kind = "list" ->
            [kind |-> "json_array", val |-> [i \in DOMAIN obj.val |-> JsonDumps(obj.val[i])]]
      [] OTHER -> Error("TypeError")

RECURSIVE JsonLoads(_)
JsonLoads(text) ==
    CASE text.kind = "json_string" -> Str(text.val)
      [] text.kind = "json_number" -> Num(text.val)
      [] text.kind = "json_null" -> NoneV
      [] text.kind = "json_object" -> MapV([k \in DOMAIN text.val |-> JsonLoads(text.val[k])])
      [] text.kind = "json_array" -> ListV([i \in DOMAIN text.val |-> JsonLoads(text.val[i])])
      [] OTHER -> Error("JSONDecodeError")

\* A cursor string: the URL-safe base64 text (padding stripped) of a UTF-8
\* JSON text, or a text that is no base64, no UTF-8 or no JSON underneath.
UrlSafeB64(text) == [kind |-> "b64url", json |-> text]
NotBase64 == [kind |-> "not_base64", json |-> Error("binascii.Error")]
NotUtf8 == [kind |-> "not_utf8", json |-> Error("UnicodeDecodeError")]
NotJson == [kind |-> "not_json", json |-> Error("JSONDecodeError")]
NoCursor == [kind |-> "none", json |-> NoneV]

\* `index` / `sort` of a cursor: a text or None.
Opt(x) == IF x = None THEN NoneV ELSE Str(x)
UnOpt(x) == IF x.kind = "none" THEN None ELSE x.val

\* encode_cursor(last, index=..., sort=...): the key, the index name and the
\* direction packed into one object, then serialized as above.
EncodeCursor(last, index, sort) ==
    UrlSafeB64(JsonDumps(jsonify(
        MapV([lastKey |-> last, index |-> Opt(index), sort |-> Opt(sort)]))))

\* decode_cursor(cursor): the reverse; malformed input raises.
IsCursorShape(obj) ==
    /\ obj.kind = "map"
    /\ DOMAIN obj.val = {"lastKey", "index", "sort"}
    /\ obj.val.lastKey.kind = "map"
    /\ obj.val.index.kind \in {"str", "none"}
    /\ obj.val.sort.kind \in {"str", "none"}

DecodeCursor(c) ==
    LET obj == dejsonify(JsonLoads(c.json))
    IN  IF c.kind # "b64url" \/ Raises(obj) \/ ~IsCursorShape(obj)
        THEN [ok |-> FALSE, last_key |-> NoKey, index |-> None, sort |-> None]
        ELSE [ok |-> TRUE, last_key |-> obj.val.lastKey,
              index |-> UnOpt(obj.val.index), sort |-> UnOpt(obj.val.sort)]

\* ==================================================== scan_all_segments
\* The store holds, for segment g, the pages 1..store.pages[g], each with one
\* item; a key is the attribute map {seg, page} of the item it points at. A
\* scan of segment g with ExclusiveStartKey {h, k} (or none, k = 0) answers
\* page k + 1 of segment g and, unless it is the segment's last page, the
\* LastEvaluatedKey {g, k + 1}. A scan may also fail with a code.
Item(g, p) == [segment |-> g, page |-> p]

Key(g, p) == MapV([seg |-> Num(g), page |-> Num(p)])

KeyPage(key) == IF key = NoKey THEN 0 ELSE key.val.page.val

ScanResponse(st, g, start) ==
    [Items |-> <<Item(g, KeyPage(start) + 1)>>,
     LastEvaluatedKey |-> IF KeyPage(start) + 1 < st.pages[g]
                          THEN Key(g, KeyPage(start) + 1) ELSE NoKey]

\* Page.next_cursor of Table.scan: encode_cursor(last, ...) if last else None.
NextCursor(resp, index) ==
    IF Truthy(resp.LastEvaluatedKey)
    THEN EncodeCursor(resp.LastEvaluatedKey, index, None)
    ELSE NoCursor

\* req["ExclusiveStartKey"] of Table.scan for a given cursor.
ExclusiveStartKey(c) == IF c # NoCursor THEN DecodeCursor(c).last_key ELSE NoKey

Segments == 0..(args.total_segments - 1)

Running == {g \in DOMAIN seg_status : seg_status[g] = "running"}

\* The `cursor` a segment worker hands to table.scan: the local variable of
\* its own scan_segment call.
WorkerCursorShared(cursors, g) == cursors[0]
WorkerCursor(cursors, g) == cursors[g]

\* The request of table.scan(cursor=cursor, segment=segment,
\* total_segments=total_segments), with the LastEvaluatedKey of its response.
ScanRequest(g, total, c, last, failed) ==
    [Segment |-> g, TotalSegments |-> total,
     ExclusiveStartKey |-> ExclusiveStartKey(c),
     LastEvaluatedKey |-> last, failed |-> failed]

\* `for seg_items in results: out.extend(seg_items)`
RECURSIVE FlattenAsCompleted(_, _)
FlattenAsCompleted(res, n) ==
    IF n = 0 THEN <<>>
    ELSE FlattenAsCompleted(res, n - 1) \o
         (IF n <= Len(completed) THEN res[completed[n]] ELSE <<>>)

RECURSIVE Flatten(_, _)
Flatten(res, n) ==
    IF n = 0 THEN <<>> ELSE Flatten(res, n - 1) \o res[n - 1]

\* Pages the store may hold for one segment.
PageCounts == {1, 2}

SegArgs ==
    {[op |-> "scan_all_segments", total_segments |-> t, has_max_workers |-> h,
      max_workers |-> w, index_name |-> None] :
        t \in 0..MaxSegments, h \in BOOLEAN, w \in 0..(MaxSegments - 1)}

SegStores ==
    {[mode |-> "segments", unprocessed |-> <<>>, pages |-> f] :
        f \in [0..(MaxSegments - 1) -> PageCounts]}

InitSegments ==
    /\ args \in SegArgs
    /\ ~args.has_max_workers => args.max_workers = 0
    /\ store \in SegStores
    /\ \A g \in 0..(MaxSegments - 1) : g >= args.total_segments => store.pages[g] = 1
    /\ pc = "enter"
    /\ outcome = NoOutcome
    /\ calls = 0
    /\ sleeps = <<>>
    /\ chunks = <<>>
    /\ chunk_idx = 0
    /\ pending = <<>>
    /\ attempts = 0
    /\ out = <<>>
    /\ sent = <<>>
    /\ last_req = <<>>
    /\ last_resp = <<>>
    /\ chunk_calls = 0
    /\ chunk_sleeps = <<>>
    /\ attempt = 0
    /\ delay = 0
    /\ last_page = NoPage
    /\ result = NoPage
    /\ log = <<>>
    /\ seg_status = <<>>
    /\ seg_cursor = <<>>
    /\ seg_out = <<>>
    /\ seg_error = <<>>
    /\ seg_reqs = <<>>
    /\ next_seg = 0
    /\ results = <<>>
    /\ completed = <<>>
    /\ cur = [kind |-> "none"]
    /\ decoded = [ok |-> FALSE]
    /\ reqs = <<>>
    /\ all_items = <<>>
    /\ reason_codes = <<>>
    /\ table = PlainTable
    /\ kms_calls = <<>>

\* max_workers after `if max_workers is None: max_workers = total_segments`.
Workers == IF args.has_max_workers THEN args.max_workers ELSE args.total_segments

\* Entry: the total_segments and max_workers checks, then
\* `results = [[] for _ in range(total_segments)]` and the pool.
SegEnter ==
    /\ pc = "enter"
    /\ IF args.total_segments <= 0 \/ Workers <= 0
       THEN /\ pc' = "done"
            /\ outcome' = Raise("ValidationError")
            /\ UNCHANGED segVars
       ELSE /\ pc' = "submit"
            /\ results' = [g \in Segments |-> <<>>]
            /\ seg_status' = [g \in Segments |-> "unsubmitted"]
            /\ seg_cursor' = [g \in Segments |-> NoCursor]
            /\ seg_out' = [g \in Segments |-> <<>>]
            /\ seg_error' = [g \in Segments |-> None]
            /\ seg_reqs' = [g \in Segments |-> <<>>]
            /\ next_seg' = 0
            /\ UNCHANGED <<outcome, completed>>
    /\ UNCHANGED <<args, store, calls, sleeps>>
    /\ UNCHANGED <<batchVars, retryVars, opVars, kmsVars>>

\* `ex.submit(scan_segment, seg) for seg in range(total_segments)`: the task
\* joins the pool's queue; after the last one main turns to the futures.
SegSubmit ==
    /\ pc = "submit"
    /\ seg_status' = [seg_status EXCEPT ![next_seg] = "queued"]
    /\ IF next_seg + 1 < args.total_segments
       THEN next_seg' = next_seg + 1 /\ pc' = "submit"
       ELSE next_seg' = 0 /\ pc' = "collect"
    /\ UNCHANGED <<args, store, outcome, calls, sleeps>>
    /\ UNCHANGED <<seg_cursor, seg_out, seg_error, seg_reqs, results, completed>>
    /\ UNCHANGED <<batchVars, retryVars, opVars, kmsVars>>

\* A pool thread takes the oldest queued task (at most max_workers threads):
\* scan_segment starts with `cursor = None`, `out = []`.
SegStart(g) ==
    /\ g \in DOMAIN seg_status
    /\ seg_status[g] = "queued"
    /\ \A h \in DOMAIN seg_status : h < g => seg_status[h] # "queued"
    /\ Cardinality(Running) < Workers
    /\ seg_status' = [seg_status EXCEPT ![g] = "running"]
    /\ seg_cursor' = [seg_cursor EXCEPT ![g] = NoCursor]
    /\ seg_out' = [seg_out EXCEPT ![g] = <<>>]
    /\ UNCHANGED <<seg_error, seg_reqs, next_seg, results, completed>>
    /\ UNCHANGED commonVars
    /\ UNCHANGED <<batchVars, retryVars, opVars, kmsVars>>

\* One pass of scan_segment's `while True`: table.scan with the worker's own
\* cursor, `out.extend(page.items)`, `cursor = page.next_cursor`, and the
\* return when the cursor is None. A failing scan ends the task with the
\* mapped error.
SegScan(g) ==
    /\ g \in DOMAIN seg_status
    /\ seg_status[g] = "running"
    /\ calls' = calls + 1
    /\ \E failed \in BOOLEAN :
        IF failed
        THEN /\ seg_status' = [seg_status EXCEPT ![g] = "failed"]
             /\ seg_error' = [seg_error EXCEPT ![g] =
                                MapClientError("ProvisionedThroughputExceededException")]
             /\ completed' = Append(completed, g)
             /\ seg_reqs' = [seg_reqs EXCEPT ![g] = Append(@,
                    ScanRequest(g, args.total_segments, WorkerCursor(seg_cursor, g),
                                NoKey, TRUE))]
             /\ UNCHANGED <<seg_cursor, seg_out>>
        ELSE LET resp == ScanResponse(store, g,
                                      ExclusiveStartKey(WorkerCursor(seg_cursor, g)))
                 cursor == NextCursor(resp, args.index_name)
             IN  /\ seg_out' = [seg_out EXCEPT ![g] = @ \o resp.Items]
                 /\ seg_cursor' = [seg_cursor EXCEPT ![g] = cursor]
                 /\ seg_reqs' = [seg_reqs EXCEPT ![g] = Append(@,
                        ScanRequest(g, args.total_segments, WorkerCursor(seg_cursor, g),
                                    resp.LastEvaluatedKey, FALSE))]
                 /\ IF cursor # NoCursor
                    THEN UNCHANGED <<seg_status, completed>>
                    ELSE /\ seg_status' = [seg_status EXCEPT ![g] = "done"]
                         /\ completed' = Append(completed, g)
                 /\ UNCHANGED seg_error
    /\ UNCHANGED <<args, store, pc, outcome, sleeps, next_seg, results>>
    /\ UNCHANGED <<batchVars, retryVars, opVars, kmsVars>>

\* `for fut, seg in futures.items(): results[seg] = fut.result()`: main waits
\* for the next future in submission order; a failed one raises here (the
\* exception is held in outcome.error until the pool has shut down).
SegCollect ==
    /\ pc = "collect"
    /\ seg_status[next_seg] \in {"done", "failed"}
    /\ IF seg_status[next_seg] = "failed"
       THEN /\ pc' = "shutdown"
            /\ outcome' = [NoOutcome EXCEPT !.error = seg_error[next_seg]]
            /\ UNCHANGED <<results, next_seg>>
       ELSE /\ results' = [results EXCEPT ![next_seg] = seg_out[next_seg]]
            /\ IF next_seg + 1 < args.total_segments
               THEN next_seg' = next_seg + 1 /\ pc' = "collect"
               ELSE next_seg' = next_seg /\ pc' = "shutdown"
            /\ UNCHANGED outcome
    /\ UNCHANGED <<args, store, calls, sleeps>>
    /\ UNCHANGED <<seg_status, seg_cursor, seg_out, seg_error, seg_reqs, completed>>
    /\ UNCHANGED <<batchVars, retryVars, opVars, kmsVars>>

\* Leaving `with ThreadPoolExecutor(...)` waits for every task; then the
\* pending exception propagates, or the results are concatenated and returned.
SegFinish ==
    /\ pc = "shutdown"
    /\ \A g \in Segments : seg_status[g] \in {"done", "failed"}
    /\ pc' = "done"
    /\ IF outcome.error # None
       THEN /\ outcome' = Raise(outcome.error)
            /\ UNCHANGED out
       ELSE /\ outcome' = Return
            /\ out' = Flatten(results, args.total_segments)
    /\ UNCHANGED <<args, store, calls, sleeps>>
    /\ UNCHANGED <<chunks, chunk_idx, pending, attempts, sent, last_req, last_resp,
                   chunk_calls, chunk_sleeps>>
    /\ UNCHANGED <<retryVars, segVars, opVars, kmsVars>>

NextSegments ==
    \/ SegEnter
    \/ SegSubmit
    \/ \E g \in 0..(MaxSegments - 1) : SegStart(g)
    \/ \E g \in 0..(MaxSegments - 1) : SegScan(g)
    \/ SegCollect
    \/ SegFinish

SpecSegments == InitSegments /\ [][NextSegments]_vars

\* ------------------------------------------------------- segment claims
RECURSIVE PagesOf(_, _)
PagesOf(g, n) == IF n = 0 THEN <<>> ELSE Append(PagesOf(g, n - 1), Item(g, n))

RECURSIVE SegmentsUpTo(_)
SegmentsUpTo(n) ==
    IF n = 0 THEN <<>> ELSE SegmentsUpTo(n - 1) \o PagesOf(n - 1, store.pages[n - 1])

\* C10: scan_all_segments returns the concatenation of the per-segment
\* results in segment-index order 0..total_segments-1, and within a segment
\* in page order, for every interleaving and completion order of the segment
\* workers and every max_workers >= 1.
C10_SegmentOrder ==
    (args.op = "scan_all_segments" /\ pc = "done" /\ outcome = Return) =>
        /\ out = SegmentsUpTo(args.total_segments)
        /\ \A i, j \in 1..Len(out) :
              i < j => \/ out[i].segment < out[j].segment
                       \/ out[i].segment = out[j].segment /\ out[i].page < out[j].page

\* C11: each segment worker owns its pagination state. Worker g sends every
\* request with Segment = g and TotalSegments = total_segments, its first
\* request without a start key and each later one with the LastEvaluatedKey
\* of its own previous page; it accumulates exactly the items of its own
\* pages and stops exactly at its first page without a continuation key. No
\* key or item of another segment appears in its requests or results.
C11_SegmentIsolation ==
    \A g \in DOMAIN seg_reqs :
        LET sent_reqs == seg_reqs[g]
            pages == {k \in 1..Len(sent_reqs) : ~sent_reqs[k].failed}
        IN  /\ \A k \in 1..Len(sent_reqs) :
                  /\ sent_reqs[k].Segment = g
                  /\ sent_reqs[k].TotalSegments = args.total_segments
                  /\ sent_reqs[k].ExclusiveStartKey =
                        (IF k = 1 THEN NoKey ELSE sent_reqs[k - 1].LastEvaluatedKey)
                  /\ sent_reqs[k].ExclusiveStartKey # NoKey =>
                        sent_reqs[k].ExclusiveStartKey.val.seg = Num(g)
                  /\ k < Len(sent_reqs) =>
                        ~sent_reqs[k].failed /\ sent_reqs[k].LastEvaluatedKey # NoKey
            /\ seg_out[g] = PagesOf(g, Cardinality(pages))
            /\ \A i \in 1..Len(results[g]) : results[g][i].segment = g
            /\ seg_status[g] = "done" =>
                  /\ sent_reqs # <<>>
                  /\ ~Last(sent_reqs).failed
                  /\ Last(sent_reqs).LastEvaluatedKey = NoKey
                  /\ Len(sent_reqs) = store.pages[g]
            /\ (seg_status[g] = "running" /\ sent_reqs # <<>>) =>
                  Last(sent_reqs).LastEvaluatedKey # NoKey

C11_Witness ==
    /\ pc = "collect"
    /\ args.total_segments = 3
    /\ seg_status = <<>> @@ [g \in 0..2 |->
                                IF g = 2 THEN "done" ELSE "running"]
    /\ Len(seg_reqs[0]) = 1
    /\ Len(seg_reqs[1]) = 1
    /\ seg_cursor[0] # NoCursor
    /\ seg_cursor[1] # NoCursor
    /\ seg_cursor[0] # seg_cursor[1]

C10_Witness ==
    /\ pc = "done"
    /\ outcome = Return
    /\ args.total_segments = 3
    /\ args.has_max_workers
    /\ args.max_workers = 2
    /\ completed = <<1, 2, 0>>
    /\ Len(out) = 5

\* ============================================== idle values of the groups
IdleBatch ==
    /\ chunks = <<>>
    /\ chunk_idx = 0
    /\ pending = <<>>
    /\ attempts = 0
    /\ out = <<>>
    /\ sent = <<>>
    /\ last_req = <<>>
    /\ last_resp = <<>>
    /\ chunk_calls = 0
    /\ chunk_sleeps = <<>>

IdleRetry ==
    /\ attempt = 0
    /\ delay = 0
    /\ last_page = NoPage
    /\ result = NoPage
    /\ log = <<>>

IdleSegments ==
    /\ seg_status = <<>>
    /\ seg_cursor = <<>>
    /\ seg_out = <<>>
    /\ seg_error = <<>>
    /\ seg_reqs = <<>>
    /\ next_seg = 0
    /\ results = <<>>
    /\ completed = <<>>

NoDecoded == [ok |-> FALSE, last_key |-> NoKey, index |-> None, sort |-> None]
NoStore == [mode |-> "none", unprocessed |-> <<>>]

\* ================================================ cursor codec round trip
\* Continuation keys as the store hands them out (attribute maps with text,
\* binary, nested map and list values), and free-form nested maps of text.
AttrS(x) == MapV([S |-> Str(x)])
AttrB(x) == MapV([B |-> Bytes(x)])

CursorKeys ==
    {MapV([PK |-> AttrS("A")]),
     MapV([PK |-> AttrS("A"), SK |-> AttrS("B")]),
     MapV([PK |-> AttrS("A"), SK |-> AttrS("aGk=")]),
     MapV([PK |-> AttrS("A"), blob |-> AttrB("hi")]),
     MapV([PK |-> AttrS("A"), nested |-> MapV([M |-> MapV([x |-> AttrB("bye")])])]),
     MapV([PK |-> AttrS("A"), list |-> MapV([L |-> ListV(<<AttrB("x"), AttrS("y")>>)])]),
     MapV([PK |-> AttrS("A"),
           meta |-> MapV((TypeTag :> Str("bytes")) @@ ("b64" :> Str("aGk=")))]),
     MapV([PK |-> AttrS("A"),
           meta |-> MapV((TypeTag :> Str("bytes")) @@ ("note" :> Str("B")))])}

IndexNames == {None, "gsi-email", "lsi-created"}
Directions == {"ASC", "DESC"}

CodecArgs ==
    {[op |-> "cursor_round_trip", key |-> k, index |-> i, sort |-> d] :
        k \in CursorKeys, i \in IndexNames, d \in Directions \cup {None}}

InitCodec ==
    /\ args \in CodecArgs
    /\ store = NoStore
    /\ pc = "enter"
    /\ outcome = NoOutcome
    /\ calls = 0
    /\ sleeps = <<>>
    /\ IdleBatch /\ IdleRetry /\ IdleSegments
    /\ cur = NoCursor
    /\ decoded = NoDecoded
    /\ reqs = <<>>
    /\ all_items = <<>>
    /\ reason_codes = <<>>
    /\ table = PlainTable
    /\ kms_calls = <<>>

\* cursor = encode_cursor(key, index=..., sort=...)
CodecEncode ==
    /\ pc = "enter"
    /\ args.op = "cursor_round_trip"
    /\ cur' = EncodeCursor(args.key, args.index, args.sort)
    /\ pc' = "encoded"
    /\ UNCHANGED <<args, store, outcome, calls, sleeps>>
    /\ UNCHANGED <<decoded, reqs, all_items, reason_codes>>
    /\ UNCHANGED <<batchVars, retryVars, segVars, kmsVars>>

\* decoded = decode_cursor(cursor)
CodecDecode ==
    /\ pc = "encoded"
    /\ decoded' = DecodeCursor(cur)
    /\ pc' = "done"
    /\ outcome' = IF decoded'.ok THEN Return ELSE Raise("ValueError")
    /\ UNCHANGED <<args, store, calls, sleeps>>
    /\ UNCHANGED <<cur, reqs, all_items, reason_codes>>
    /\ UNCHANGED <<batchVars, retryVars, segVars, kmsVars>>

NextCodec == CodecEncode \/ CodecDecode

SpecCodec == InitCodec /\ [][NextCodec]_vars

\* C13 (as claimed): for every continuation key built from nested maps,
\* lists, strings and raw byte sequences, every index name (or none) and
\* every direction, decode_cursor(encode_cursor(key, index, direction))
\* yields exactly (key, index, direction), bytes restored as bytes.
C13_RoundTrip ==
    (args.op = "cursor_round_trip" /\ pc = "done") =>
        /\ decoded.ok
        /\ decoded.last_key = args.key
        /\ decoded.index = args.index
        /\ decoded.sort = args.sort

\* The keys in which no map carries the field "__type" with the text "bytes".
RECURSIVE Untagged(_)
Untagged(obj) ==
    CASE obj.kind = "map" -> ~IsTagged(obj) /\ \A k \in DOMAIN obj.val : Untagged(obj.val[k])
      [] obj.kind = "list" -> \A i \in DOMAIN obj.val : Untagged(obj.val[i])
      [] OTHER -> TRUE

\* The round trip of C13 restricted to those keys.
C13_UntaggedRoundTrip ==
    (args.op = "cursor_round_trip" /\ pc = "done" /\ Untagged(args.key)) =>
        /\ decoded.ok
        /\ decoded.last_key = args.key
        /\ decoded.index = args.index
        /\ decoded.sort = args.sort

\* ============================================================ query / scan
\* self._model.indexes of the model in use: one GSI and one LSI.
ModelIndexes == ("gsi-email" :> "GSI") @@ ("lsi-created" :> "LSI")

\* _resolve_index(index_name): the index type, or ValidationError (unknown).
ResolveIndex(index_name) ==
    IF index_name = None THEN "TABLE"
    ELSE IF index_name \in DOMAIN ModelIndexes THEN ModelIndexes[index_name]
    ELSE "unknown"

\* `if index_type == "GSI" and consistent_read: raise ValidationError`
GsiConsistentReadAnyIndex(index_type, consistent_read) ==
    index_type # "TABLE" /\ consistent_read
GsiConsistentRead(index_type, consistent_read) ==
    index_type = "GSI" /\ consistent_read

\* expected_sort = "ASC" if scan_forward else "DESC"
ExpectedSort(a) == IF a.scan_forward THEN "ASC" ELSE "DESC"

\* The `if cursor is not None:` block of query and of scan: the exception it
\* raises, or None when the cursor is taken.
CursorCheckUncaught(a, c) ==
    LET d == DecodeCursor(c)
    IN  IF ~d.ok THEN "ValueError"
        ELSE IF d.index # None /\ d.index # a.index_name THEN "ValidationError"
        ELSE IF a.op = "query" /\ d.sort # None /\ d.sort # ExpectedSort(a)
             THEN "ValidationError"
        ELSE None
CursorCheck(a, c) ==
    LET d == DecodeCursor(c)
    IN  IF ~d.ok THEN "ValidationError"
        ELSE IF d.index # None /\ d.index # a.index_name THEN "ValidationError"
        ELSE IF a.op = "query" /\ d.sort # None /\ d.sort # ExpectedSort(a)
             THEN "ValidationError"
        ELSE None

\* The checks of query / scan up to the request, in the code's order: the
\* exception raised, or None when the request goes out. (sort, projection
\* and filter are not given.)
ReadValidate(a, c) ==
    IF ResolveIndex(a.index_name) = "unknown" THEN "ValidationError"
    ELSE IF GsiConsistentRead(ResolveIndex(a.index_name), a.consistent_read)
         THEN "ValidationError"
    ELSE IF a.op = "query" /\ ~a.partition_given THEN "ValidationError"
    ELSE IF a.has_limit /\ a.limit <= 0 THEN "ValidationError"
    ELSE IF c # NoCursor THEN CursorCheck(a, c)
    ELSE None

\* The request of query / scan, with the LastEvaluatedKey of its response.
ReadRequest(a, c, last, failed) ==
    [op |-> a.op, IndexName |-> a.index_name, ConsistentRead |-> a.consistent_read,
     ScanIndexForward |-> a.op = "query" /\ a.scan_forward,
     ExclusiveStartKey |-> ExclusiveStartKey(c),
     LastEvaluatedKey |-> last, failed |-> failed]

\* Page.next_cursor: query encodes the index and the direction, scan the
\* index only; None when the response has no LastEvaluatedKey.
PageCursorAlways(a, last) == EncodeCursor(last, a.index_name, None)
PageCursor(a, last) ==
    IF ~Truthy(last) THEN NoCursor
    ELSE IF a.op = "query" THEN EncodeCursor(last, a.index_name, ExpectedSort(a))
    ELSE EncodeCursor(last, a.index_name, None)

\* Cursor strings a caller may hand in: none, undecodable text, decodable
\* text that is no cursor, and cursors of earlier pages of any read.
MalformedCursors ==
    {NotBase64, NotUtf8, NotJson,
     UrlSafeB64(JsonDumps(Num(5))),
     UrlSafeB64(JsonDumps(ListV(<<Str("A")>>))),
     UrlSafeB64(JsonDumps(MapV([index |-> Str("gsi-email")]))),
     UrlSafeB64(JsonDumps(MapV([lastKey |-> Str("A"), index |-> NoneV, sort |-> NoneV]))),
     UrlSafeB64(JsonDumps(MapV((TypeTag :> Str("bytes")) @@ ("note" :> Str("B")))))}

PageCursors ==
    {EncodeCursor(Key(0, 1), i, d) : i \in IndexNames, d \in Directions \cup {None}}

ReadArgs ==
    {[op |-> o, index_name |-> i, scan_forward |-> f, consistent_read |-> r,
      partition_given |-> g, has_limit |-> h, limit |-> l, cursor |-> c] :
        o \in {"query", "scan"}, i \in IndexNames \cup {"no-such-index"},
        f \in BOOLEAN, r \in BOOLEAN, g \in BOOLEAN, h \in BOOLEAN, l \in {0, 1},
        c \in {NoCursor} \cup MalformedCursors \cup PageCursors}

ReadStores ==
    {[mode |-> "pages", unprocessed |-> <<>>, pages |-> (0 :> n)] : n \in 1..MaxPages}

InitRead ==
    /\ args \in ReadArgs
    /\ ~args.has_limit => args.limit = 1
    /\ args.op = "scan" => args.scan_forward /\ args.partition_given
    /\ store \in ReadStores
    /\ args.cursor \in PageCursors => store.pages[0] >= 2
    /\ pc = "enter"
    /\ outcome = NoOutcome
    /\ calls = 0
    /\ sleeps = <<>>
    /\ IdleBatch /\ IdleRetry /\ IdleSegments
    /\ cur = args.cursor
    /\ decoded = NoDecoded
    /\ reqs = <<>>
    /\ all_items = <<>>
    /\ reason_codes = <<>>
    /\ table = PlainTable
    /\ kms_calls = <<>>

\* One call of query / scan with the cursor at hand: the checks, the request
\* and the Page made of the response; a store failure raises the mapped
\* error. The caller holds the page's items and its next_cursor.
ReadCall(from, failed) ==
    /\ pc = from
    /\ LET err == ReadValidate(args, cur)
           resp == ScanResponse(store, 0, ExclusiveStartKey(cur))
       IN  IF err # None
           THEN /\ pc' = "done"
                /\ outcome' = Raise(err)
                /\ UNCHANGED <<calls, cur, reqs, all_items>>
           ELSE /\ calls' = calls + 1
                /\ IF failed
                   THEN /\ reqs' = Append(reqs, ReadRequest(args, cur, NoKey, TRUE))
                        /\ pc' = "done"
                        /\ outcome' = Raise(MapClientError("InternalServerError"))
                        /\ UNCHANGED <<cur, all_items>>
                   ELSE /\ reqs' = Append(reqs,
                              ReadRequest(args, cur, resp.LastEvaluatedKey, FALSE))
                        /\ all_items' = all_items \o resp.Items
                        /\ cur' = PageCursor(args, resp.LastEvaluatedKey)
                        /\ pc' = IF cur' = NoCursor THEN "done" ELSE "paged"
                        /\ outcome' = IF cur' = NoCursor THEN Return ELSE NoOutcome
    /\ decoded' = IF cur = NoCursor THEN NoDecoded ELSE DecodeCursor(cur)
    /\ UNCHANGED <<args, store, sleeps, reason_codes>>
    /\ UNCHANGED <<batchVars, retryVars, segVars, kmsVars>>

\* The first call, with the caller's cursor argument.
ReadFirst == \E failed \in BOOLEAN : ReadCall("enter", failed)

\* The loop of query_all / scan_all (and of any paginating caller): the
\* next call passes the previous page's next_cursor back.
ReadNext == \E failed \in BOOLEAN : ReadCall("paged", failed)

NextRead == ReadFirst \/ ReadNext

SpecRead == InitRead /\ [][NextRead]_vars

\* ---------------------------------------------------- query / scan claims
IsRead == args.op \in {"query", "scan"}

\* The first call has been made (it raised, or its page is at hand).
FirstCallMade == IsRead /\ pc # "enter"

\* Everything but the cursor is in order: a known index, no consistent read
\* of a GSI, a partition value, no limit or a positive one.
OtherwiseValid ==
    /\ ResolveIndex(args.index_name) # "unknown"
    /\ ~(ResolveIndex(args.index_name) = "GSI" /\ args.consistent_read)
    /\ args.partition_given
    /\ args.has_limit => args.limit > 0

Rejected == pc = "done" /\ outcome = Raise("ValidationError") /\ reqs = <<>> /\ calls = 0

\* C12 (as claimed): a cursor is accepted only by a query / scan with matching
\* index and direction. query raises ValidationError and sends no request
\* whenever the cursor's index differs from index_name (a base-table cursor
\* used with an index and an index cursor used on the base table included)
\* or the cursor's direction differs from the query's; scan does so whenever
\* the cursor's index differs from index_name.
C12_CursorMatches ==
    LET d == DecodeCursor(args.cursor)
    IN  (FirstCallMade /\ args.cursor # NoCursor /\ d.ok) =>
            /\ d.index # args.index_name => Rejected
            /\ (args.op = "query" /\ d.sort # None /\ d.sort # ExpectedSort(args)) =>
                  Rejected

C19_GsiConsistentRead ==
    (FirstCallMade /\ args.consistent_read) =>
        /\ ResolveIndex(args.index_name) = "GSI" => Rejected
        /\ (/\ ResolveIndex(args.index_name) \in {"LSI", "TABLE"}
            /\ args.partition_given
            /\ args.has_limit => args.limit > 0
            /\ args.cursor = NoCursor) => reqs # <<>>

C19_Witness ==
    /\ FirstCallMade
    /\ args.op = "scan"
    /\ args.index_name = "gsi-email"
    /\ args.consistent_read
    /\ ~args.has_limit
    /\ args.cursor = NoCursor
    /\ Rejected

\* ================================== transact_write / update / UpdateBuilder
\* The model in use has the attributes pk, count (a number), tags (a set)
\* and, when it defines a sort key, sk.
Attributes(m) == {"pk", "count", "tags"} \cup (IF m.has_sk THEN {"sk"} ELSE {})

\* field_name == pk.python_name or (sk is not None and field_name == sk.python_name)
IsKeyFieldPkOnly(m, f) == f = "pk"
IsKeyField(m, f) == f = "pk" \/ (m.has_sk /\ f = "sk")

\* _to_key(pk, sk): the ValidationError it raises, or None.
ToKeyError(m) ==
    IF ~m.pk_given THEN "ValidationError"
    ELSE IF ~m.has_sk /\ m.sk_given THEN "ValidationError"
    ELSE IF m.has_sk /\ ~m.sk_given THEN "ValidationError"
    ELSE None

\* The first of the loop iterations that raise, 0 if none does.
FirstBad(S) == IF S = {} THEN 0 ELSE CHOOSE i \in S : \A j \in S : i <= j

\* One pass of the loop of _build_update_request over (field_name, value).
UpdateFieldError(m, u) ==
    IF u.field \notin Attributes(m) THEN "ValidationError"
    ELSE IF IsKeyField(m, u.field) THEN "ValidationError"
    ELSE None

\* _build_update_request: the exception it raises, or None when it returns
\* the request. (Values are serializable; no extra names or values given.)
BuildUpdateError(m, updates) ==
    LET bad == FirstBad({i \in 1..Len(updates) : UpdateFieldError(m, updates[i]) # None})
    IN  IF ToKeyError(m) # None THEN ToKeyError(m)
        ELSE IF bad # 0 THEN UpdateFieldError(m, updates[bad])
        ELSE IF updates = <<>> THEN "ValidationError"
        ELSE None

\* One pass of the loop of UpdateBuilder._build_request over (kind, args):
\* update_name_ref first, then the checks of the operation kind.
ListKinds == {"APPEND_LIST", "PREPEND_LIST", "REMOVE_LIST_AT", "SET_LIST_ELEMENT"}
BuilderKinds == {"SET", "SET_IF_NOT_EXISTS", "REMOVE", "ADD", "DELETE"} \cup ListKinds

BuilderOpError(m, u) ==
    IF u.field \notin Attributes(m) THEN "ValidationError"
    ELSE IF IsKeyField(m, u.field) THEN "ValidationError"
    ELSE IF u.kind = "ADD" /\ u.field # "tags" /\ u.value # "1" THEN "ValidationError"
    ELSE IF u.kind = "DELETE" /\ u.field # "tags" THEN "ValidationError"
    ELSE IF u.kind \in ListKinds /\ u.field = "tags" THEN "ValidationError"
    ELSE None

\* UpdateBuilder.execute up to the request: `if not self._updates`, then
\* _build_request (_to_key, the loop; no conditions are given).
BuilderError(m, updates) ==
    LET bad == FirstBad({i \in 1..Len(updates) : BuilderOpError(m, updates[i]) # None})
    IN  IF updates = <<>> THEN "ValidationError"
        ELSE IF ToKeyError(m) # None THEN ToKeyError(m)
        ELSE IF bad # 0 THEN BuilderOpError(m, updates[bad])
        ELSE None

\* The rendering of one action of transact_write: the exception, or None.
ActionError(m, action) ==
    CASE action.kind = "Put" -> None
      [] action.kind \in {"Delete", "ConditionCheck"} -> ToKeyError(m)
      [] action.kind = "Update" -> BuildUpdateError(m, action.updates)
      [] OTHER -> "ValidationError"

\* transact_write up to the request.
TooManyOver(n) == n > TransactMax + 1
TooMany(n) == n > TransactMax

TransactError(m, actions) ==
    LET bad == FirstBad({i \in 1..Len(actions) : ActionError(m, actions[i]) # None})
    IN  IF actions = <<>> THEN "ValidationError"
        ELSE IF TooMany(Len(actions)) THEN "ValidationError"
        ELSE IF bad # 0 THEN ActionError(m, actions[bad])
        ELSE None

\* A store response: code "" is success. A cancellation carries one reason
\* per action (Code "" stands for an entry without a Code) or none at all,
\* and a message that may mention ConditionalCheckFailed.
Canceled == "TransactionCanceledException"
ConditionalCheckFailed == "ConditionalCheckFailed"
Response(code, reasons, mentions, attrs) ==
    [code |-> code, reasons |-> reasons, message_mentions |-> mentions, attrs |-> attrs]

\* reason_codes of _map_transaction_error: the Code of every reason that
\* has one, in order.
HasCode(reason) == reason # ""
ReasonCodes(reasons) == SelectSeq(reasons, HasCode)

\* _map_transaction_error: the error kind a failed transact_write_items
\* becomes.
MapTransactionErrorNoReasons(resp) ==
    IF resp.code = Canceled
    THEN IF resp.message_mentions THEN "ConditionFailedError"
         ELSE "TransactionCanceledError"
    ELSE MapClientError(resp.code)
MapTransactionError(resp) ==
    IF resp.code = Canceled
    THEN IF \/ \E i \in 1..Len(ReasonCodes(resp.reasons)) :
                   ReasonCodes(resp.reasons)[i] = ConditionalCheckFailed
            \/ resp.message_mentions
         THEN "ConditionFailedError"
         ELSE "TransactionCanceledError"
    ELSE MapClientError(resp.code)

\* ------------------------------------------------------------ write inputs
FieldNames == {"pk", "sk", "count", "tags", "bogus"}
UpdateCounts == {0, 1, 2}

SeqsUpTo(S, counts) == UNION {[1..n -> S] : n \in counts}

\* `updates` of Table.update / TransactUpdate: field -> value (None removes).
UpdateEntries ==
    {[kind |-> "update", field |-> f, value |-> v] : f \in FieldNames, v \in {None, "1"}}

UpdateMaps ==
    {u \in SeqsUpTo(UpdateEntries, UpdateCounts) :
        \A i, j \in 1..Len(u) : i # j => u[i].field # u[j].field}

\* The operations recorded by the UpdateBuilder methods.
BuilderOps ==
    {[kind |-> k, field |-> f, value |-> v] :
        k \in {"SET", "ADD"}, f \in FieldNames, v \in {None, "1"}}
    \cup {[kind |-> k, field |-> f, value |-> "1"] :
            k \in BuilderKinds \ {"SET", "ADD"}, f \in FieldNames}

\* Builder call chains: none, one operation, or a first operation on a plain
\* field (acceptable or not) followed by any operation.
BuilderChains ==
    {<<>>} \cup {<<o>> : o \in BuilderOps}
    \cup {<<f, o>> : f \in {b \in BuilderOps : b.field = "count" /\ b.kind \in {"SET", "ADD"}},
                     o \in BuilderOps}

Action(kind, updates) == [kind |-> kind, updates |-> updates]
Entry(f, v) == [kind |-> "update", field |-> f, value |-> v]

ActionShapes ==
    {Action(k, <<>>) : k \in {"Put", "Delete", "ConditionCheck", "TransactGet"}}
    \cup {Action("Update", u) :
            u \in {<<Entry("count", "1")>>, <<Entry("pk", None)>>,
                   <<Entry("sk", "1")>>, <<Entry("count", "1"), Entry("pk", "1")>>}}

Puts(n) == [i \in 1..n |-> Action("Put", <<>>)]

ReasonKinds == {"", "None", ConditionalCheckFailed, "ValidationError"}

WriteArgs ==
    {[op |-> "update", has_sk |-> h, pk_given |-> p, sk_given |-> k,
      updates |-> u, actions |-> <<>>] :
        h \in BOOLEAN, p \in BOOLEAN, k \in BOOLEAN, u \in UpdateMaps}
    \cup {[op |-> "update_builder", has_sk |-> h, pk_given |-> TRUE, sk_given |-> k,
            updates |-> u, actions |-> <<>>] :
            h \in BOOLEAN, k \in BOOLEAN, u \in BuilderChains}
    \cup {[op |-> "transact_write", has_sk |-> h, pk_given |-> TRUE, sk_given |-> h,
            updates |-> <<>>, actions |-> a] :
            h \in BOOLEAN,
            a \in SeqsUpTo(ActionShapes, 0..MaxActions)
                  \cup {Puts(TransactMax), Puts(TransactMax + 1)}}

\* Responses that can answer the call: success (Attributes matter to update
\* only), a failure code, and for a transaction a cancellation with one
\* reason per action or none. Cancellations are enumerated for the
\* transactions made of puts.
CancelReasons(a) ==
    IF a.op = "transact_write" /\ a.actions = Puts(Len(a.actions))
    THEN {<<>>} \cup (IF Len(a.actions) <= MaxActions
                      THEN [1..Len(a.actions) -> ReasonKinds] ELSE {})
    ELSE {}

WriteStores(a) ==
    {[mode |-> "write", unprocessed |-> <<>>, resp |-> r] :
        r \in {Response("", <<>>, FALSE, t) :
                  t \in IF a.op = "update" THEN BOOLEAN ELSE {TRUE}}
              \cup {Response(c, <<>>, FALSE, FALSE) :
                      c \in {"ProvisionedThroughputExceededException",
                             "ConditionalCheckFailedException"}}
              \cup {Response(Canceled, q, m, FALSE) :
                      q \in CancelReasons(a), m \in BOOLEAN}}

InitWrite ==
    /\ args \in WriteArgs
    /\ store \in WriteStores(args)
    /\ pc = "enter"
    /\ outcome = NoOutcome
    /\ calls = 0
    /\ sleeps = <<>>
    /\ IdleBatch /\ IdleRetry /\ IdleSegments
    /\ cur = NoCursor
    /\ decoded = NoDecoded
    /\ reqs = <<>>
    /\ all_items = <<>>
    /\ reason_codes = <<>>
    /\ table = PlainTable
    /\ kms_calls = <<>>

WriteRequest(op, n) == [op |-> op, n |-> n]

\* What ends a write call: the validation error, or the request and what
\* the response turns into.
Finish(err, req, after) ==
    /\ pc' = "done"
    /\ IF err # None
       THEN /\ outcome' = Raise(err)
            /\ UNCHANGED <<calls, reqs>>
       ELSE /\ calls' = calls + 1
            /\ reqs' = Append(reqs, req)
            /\ outcome' = IF after = None THEN Return ELSE Raise(after)
    /\ UNCHANGED <<args, store, sleeps, cur, decoded, all_items>>
    /\ UNCHANGED <<batchVars, retryVars, segVars, kmsVars>>

\* Table.update
Update ==
    /\ pc = "enter"
    /\ args.op = "update"
    /\ Finish(BuildUpdateError(args, args.updates),
              WriteRequest("update_item", Len(args.updates)),
              IF store.resp.code # "" THEN MapClientError(store.resp.code)
              ELSE IF ~store.resp.attrs THEN "ValidationError"
              ELSE None)
    /\ UNCHANGED reason_codes

\* UpdateBuilder.execute
BuilderExecute ==
    /\ pc = "enter"
    /\ args.op = "update_builder"
    /\ Finish(BuilderError(args, args.updates),
              WriteRequest("update_item", Len(args.updates)),
              IF store.resp.code # "" THEN MapClientError(store.resp.code) ELSE None)
    /\ UNCHANGED reason_codes

\* Table.transact_write
TransactWrite ==
    /\ pc = "enter"
    /\ args.op = "transact_write"
    /\ Finish(TransactError(args, args.actions),
              WriteRequest("transact_write_items", Len(args.actions)),
              IF store.resp.code # "" THEN MapTransactionError(store.resp) ELSE None)
    /\ reason_codes' =
          IF /\ TransactError(args, args.actions) = None
             /\ store.resp.code # ""
             /\ MapTransactionError(store.resp) = "TransactionCanceledError"
          THEN ReasonCodes(store.resp.reasons)
          ELSE <<>>

NextWrite == Update \/ BuilderExecute \/ TransactWrite

SpecWrite == InitWrite /\ [][NextWrite]_vars

\* ------------------------------------------------------------ write claims
TransactDone == args.op = "transact_write" /\ pc = "done"

\* The store cancelled the transaction that was sent.
TransactCanceled == TransactDone /\ reqs # <<>> /\ store.resp.code = Canceled

AnyConditionalCheckFailed ==
    \E i \in 1..Len(store.resp.reasons) : store.resp.reasons[i] = ConditionalCheckFailed

\* C16: transact_write accepts only 1 to 100 actions: with an empty list or
\* with more than 100 actions it raises ValidationError and never calls the
\* store; 1 to 100 renderable actions go out in one request.
C16_ActionCount ==
    TransactDone =>
        /\ (Len(args.actions) = 0 \/ Len(args.actions) > 100) => Rejected
        /\ (/\ Len(args.actions) \in 1..100
            /\ \A i \in 1..Len(args.actions) : args.actions[i].kind = "Put") =>
              /\ calls = 1
              /\ reqs = <<WriteRequest("transact_write_items", Len(args.actions))>>

C16_Witness ==
    /\ TransactDone
    /\ Len(args.actions) = 101
    /\ Rejected

\* C17 (as claimed): when the store cancels a transaction, the caller gets
\* ConditionFailedError if any per-item cancellation reason has code
\* ConditionalCheckFailed, and TransactionCanceledError (never
\* ConditionFailedError) if none does.
C17_Original ==
    TransactCanceled =>
        outcome = Raise(IF AnyConditionalCheckFailed THEN "ConditionFailedError"
                        ELSE "TransactionCanceledError")

\* C17 (amended): ConditionFailedError if any reason has code
\* ConditionalCheckFailed or the error message mentions ConditionalCheckFailed;
\* TransactionCanceledError otherwise.
C17_ConditionFailed ==
    TransactCanceled =>
        outcome = Raise(IF AnyConditionalCheckFailed \/ store.resp.message_mentions
                        THEN "ConditionFailedError"
                        ELSE "TransactionCanceledError")

C17_Witness ==
    /\ TransactCanceled
    /\ store.resp.reasons = <<"None", ConditionalCheckFailed, "ValidationError">>
    /\ ~store.resp.message_mentions
    /\ outcome = Raise("ConditionFailedError")

\* C18 (as claimed): TransactionCanceledError.reason_codes is position-aligned
\* with the submitted actions: one entry per cancellation reason of the
\* response, in the same order, with the empty string for the items that did
\* not fail, so that reason_codes[i] describes action i.
C18_ReasonCodesAligned ==
    (TransactCanceled /\ outcome = Raise("TransactionCanceledError")) =>
        /\ Len(reason_codes) = Len(store.resp.reasons)
        /\ \A i \in 1..Len(store.resp.reasons) :
              i <= Len(reason_codes) =>
                reason_codes[i] = (IF store.resp.reasons[i] \in {"", "None"} THEN ""
                                   ELSE store.resp.reasons[i])

\* C20: key fields are never updatable. update, UpdateBuilder.execute (for
\* every operation kind) and a TransactUpdate inside transact_write raise
\* ValidationError and send no request whenever a targeted field is the
\* model's pk or sk field, whatever the requested value (None included).
TargetsKey(updates) ==
    \E i \in 1..Len(updates) :
        updates[i].field = "pk" \/ (args.has_sk /\ updates[i].field = "sk")

C20_KeyFieldsNotUpdatable ==
    (args.op \in {"update", "update_builder", "transact_write"} /\ pc = "done") =>
        /\ TargetsKey(args.updates) => Rejected
        /\ (\E i \in 1..Len(args.actions) :
                args.actions[i].kind = "Update" /\ TargetsKey(args.actions[i].updates))
              => Rejected

C20_Witness ==
    /\ args.op = "update_builder"
    /\ pc = "done"
    /\ args.has_sk /\ args.sk_given
    /\ args.updates = <<[kind |-> "SET", field |-> "count", value |-> "1"],
                        [kind |-> "REMOVE", field |-> "sk", value |-> "1"]>>
    /\ Rejected

\* ================================================ rendering of placeholders
\* ExpressionAttributeNames / ExpressionAttributeValues are dicts from
\* placeholder to attribute name / serialized operand. A rendering is what a
\* request builder leaves behind: the exception it raised (or None), the two
\* dicts, and the uses made of placeholders by the expressions: the pairs
\* <<placeholder, what the expression means by it>>.
NoDict == <<>>
Assign(d, k, v) == [x \in DOMAIN d \cup {k} |-> IF x = k THEN v ELSE d[x]]
Items(d) == {<<k, d[k]>> : k \in DOMAIN d}

\* attr_def.attribute_name of the model's fields
AttributeName == [pk |-> "PK", sk |-> "SK", count |-> "cnt", tags |-> "labels"]

\* self._serializer.serialize(v) of a text operand
Serialize(v) == AttrS(v)
SerializeValues(d) == [k \in DOMAIN d |-> Serialize(d[k])]

Rendering(err, names, values, name_uses, value_uses) ==
    [err |-> err, names |-> names, values |-> values,
     name_uses |-> name_uses, value_uses |-> value_uses, counter |-> 0]

Failed(r) == [r EXCEPT !.err = "ValidationError"]
UseName(r, ref, attr) ==
    [r EXCEPT !.names = Assign(@, ref, attr), !.name_uses = @ \cup {<<ref, attr>>}]
UseValue(r, ref, operand) ==
    [r EXCEPT !.values = Assign(@, ref, Serialize(operand)),
              !.value_uses = @ \cup {<<ref, Serialize(operand)>>}]

\* `for k, v in extra.items(): if k in req[...]: raise ...; req[...][k] = v`
MergeOverwriting(internal, extra) == [err |-> None, dict |-> extra @@ internal]
Merge(internal, extra) ==
    [err |-> IF DOMAIN extra \cap DOMAIN internal # {} THEN "ValidationError" ELSE None,
     dict |-> internal @@ extra]

\* name_ref = f"#d_{field_name}", value_ref = f":d_{field_name}"
UpdateNameRef(f) == "#d_" \o f
UpdateValueRef(f) == ":d_" \o f

\* _build_update_request with the caller's extra names and values.
BuildUpdateRequest(m, updates, extra_names, extra_values) ==
    LET fields == {updates[i].field : i \in 1..Len(updates)}
        valued == {i \in 1..Len(updates) : updates[i].value # None}
        update_names == [r \in {UpdateNameRef(f) : f \in fields} |->
                            AttributeName[CHOOSE f \in fields : UpdateNameRef(f) = r]]
        update_values == [r \in {UpdateValueRef(updates[i].field) : i \in valued} |->
                            Serialize(updates[CHOOSE i \in valued :
                                          UpdateValueRef(updates[i].field) = r].value)]
        names == Merge(update_names, extra_names)
        values == Merge(update_values, SerializeValues(extra_values))
        err == IF BuildUpdateError(m, updates) # None THEN BuildUpdateError(m, updates)
               ELSE IF names.err # None THEN names.err
               ELSE values.err
    IN  IF BuildUpdateError(m, updates) # None
        THEN Rendering(BuildUpdateError(m, updates), NoDict, NoDict, {}, {})
        ELSE Rendering(err, names.dict, values.dict,
                       {<<UpdateNameRef(f), AttributeName[f]>> : f \in fields}
                           \cup Items(extra_names),
                       {<<UpdateValueRef(updates[i].field), Serialize(updates[i].value)>> :
                            i \in valued}
                           \cup Items(SerializeValues(extra_values)))

\* ------------------------------------------------- query / scan expressions
\* A sort key condition and a filter condition are (op, values); a filter is
\* the sequence of the FilterConditions of its groups in the order build()
\* visits them. The model has no encrypted field here.
SortArity ==
    [op \in {"=", "<", "<=", ">", ">=", "begins_with"} |-> 1] @@ ("between" :> 2)

\* An optional argument: `None`, or the value given.
Absent == <<>>
Given(x) == <<x>>

\* _apply_sort_condition, with names["#sk"] = sort_attr before it
ApplySortCondition(m, r, cond) ==
    IF ~m.has_sk THEN Failed(r)
    ELSE LET named == UseName(r, "#sk", AttributeName["sk"])
         IN  IF cond.op \notin DOMAIN SortArity THEN Failed(named)
             ELSE IF Len(cond.values) # SortArity[cond.op] THEN Failed(named)
             ELSE IF cond.op = "between"
                  THEN UseValue(UseValue(named, ":sk1", cond.values[1]),
                                ":sk2", cond.values[2])
                  ELSE UseValue(named, ":sk", cond.values[1])

\* _required_fields: the key fields (every other field has a default)
RequiredFields(m) == {"pk"} \cup (IF m.has_sk THEN {"sk"} ELSE {})

RECURSIVE ProjectionRefs(_, _)
ProjectionRefs(r, projection) ==
    IF projection = <<>> THEN r
    ELSE ProjectionRefs(UseName(r, "#p_" \o Head(projection), AttributeName[Head(projection)]),
                        Tail(projection))

\* _projection_expression
ProjectionExpression(m, r, projection) ==
    LET listed == {projection[i] : i \in 1..Len(projection)}
        known == FirstBad({i \in 1..Len(projection) : projection[i] \notin Attributes(m)})
    IN  IF ~(RequiredFields(m) \subseteq listed) THEN Failed(r)
        ELSE IF known # 0 THEN Failed(ProjectionRefs(r, SubSeq(projection, 1, known - 1)))
        ELSE ProjectionRefs(r, projection)

\* value_ref of _filter_expression: counter += 1; ref = f":f{counter}"
FilterValueRef(n) == ":f" \o ToString(n)

RECURSIVE FilterValueRefs(_, _)
FilterValueRefs(r, operands) ==
    IF operands = <<>> THEN r
    ELSE LET ref == FilterValueRef(r.counter + 1)
             counted == [r EXCEPT !.counter = @ + 1]
         IN  IF ref \in DOMAIN r.values THEN Failed(counted)
             ELSE FilterValueRefs(UseValue(counted, ref, Head(operands)), Tail(operands))

\* The number of values each operator of build() takes (IN: the length of
\* its one sequence, at most 100).
FilterArity ==
    [op \in {"=", "EQ", "!=", "<>", "NE", "<", "LT", "<=", "LE", ">", "GT", ">=", "GE",
              "BEGINS_WITH", "CONTAINS"} |-> {1}]
    @@ ("BETWEEN" :> {2}) @@ ("IN" :> 0..100)
    @@ [op \in {"EXISTS", "ATTRIBUTE_EXISTS", "NOT_EXISTS", "ATTRIBUTE_NOT_EXISTS"} |-> {0}]

\* build(node) of a FilterCondition: name_ref, then the operator's values
FilterTerm(m, r, c) ==
    IF c.field \notin Attributes(m) THEN Failed(r)
    ELSE LET ref == "#f_" \o c.field
             attr == AttributeName[c.field]
         IN  IF ref \in DOMAIN r.names /\ r.names[ref] # attr THEN Failed(r)
             ELSE IF c.op \notin DOMAIN FilterArity THEN Failed(UseName(r, ref, attr))
             ELSE IF Len(c.values) \notin FilterArity[c.op] THEN Failed(UseName(r, ref, attr))
             ELSE FilterValueRefs(UseName(r, ref, attr), c.values)

RECURSIVE FilterExpression(_, _, _)
FilterExpression(m, r, conds) ==
    IF conds = <<>> \/ r.err # None THEN r
    ELSE FilterExpression(m, FilterTerm(m, r, Head(conds)), Tail(conds))

\* query (base table, partition given, no limit, no cursor): the key
\* condition, then the projection, then the filter.
RenderQuery(m, sort, projection, filter) ==
    LET keyed == UseValue(UseName(Rendering(None, NoDict, NoDict, {}, {}),
                                  "#pk", AttributeName["pk"]), ":pk", "A")
        sorted == IF sort = Absent THEN keyed ELSE ApplySortCondition(m, keyed, sort[1])
        projected == IF sorted.err # None \/ projection = Absent THEN sorted
                     ELSE ProjectionExpression(m, sorted, projection[1])
    IN  IF projected.err # None \/ filter = Absent THEN projected
        ELSE FilterExpression(m, projected, filter[1])

\* scan (base table, no limit, no cursor, no segment)
RenderScan(m, projection, filter) ==
    LET projected == IF projection = Absent THEN Rendering(None, NoDict, NoDict, {}, {})
                     ELSE ProjectionExpression(m, Rendering(None, NoDict, NoDict, {}, {}),
                                               projection[1])
    IN  IF projected.err # None \/ filter = Absent THEN projected
        ELSE FilterExpression(m, projected, filter[1])

\* ---------------------------------------------- UpdateBuilder._build_request
\* names.setdefault(ref, attr_def.attribute_name)
UseNameDefault(r, ref, attr) ==
    [r EXCEPT !.names = IF ref \in DOMAIN @ THEN @ ELSE Assign(@, ref, attr),
              !.name_uses = @ \cup {<<ref, attr>>}]

\* update_value_ref / raw_value_ref: update_counter += 1; ref = f":u{update_counter}"
UpdateCounterRefFixed(n) == ":u1"
UpdateCounterRef(n) == ":u" \o ToString(n)

\* condition_value_ref: condition_counter += 1; ref = f":c{condition_counter}"
ConditionValueRef(n) == ":c" \o ToString(n)

\* The operation kinds that render a value placeholder.
CarriesValue(kind) == kind \notin {"REMOVE", "REMOVE_LIST_AT"}

\* The loop over self._updates, for operations that pass their checks.
RECURSIVE BuilderUpdates(_, _)
BuilderUpdates(r, updates) ==
    IF updates = <<>> THEN r
    ELSE LET u == Head(updates)
             named == UseNameDefault(r, "#u_" \o u.field, AttributeName[u.field])
             counted == [named EXCEPT !.counter = @ + 1]
         IN  BuilderUpdates(IF CarriesValue(u.kind)
                            THEN UseValue(counted, UpdateCounterRef(counted.counter), u.value)
                            ELSE named,
                            Tail(updates))

\* _build_condition_term takes the values the filter operators take.
ConditionArity == FilterArity

RECURSIVE ConditionValueRefs(_, _)
ConditionValueRefs(r, operands) ==
    IF operands = <<>> THEN r
    ELSE ConditionValueRefs(UseValue([r EXCEPT !.counter = @ + 1],
                                     ConditionValueRef(r.counter + 1), Head(operands)),
                            Tail(operands))

\* condition_name_ref, then _build_condition_term
ConditionTerm(m, r, c) ==
    IF c.field \notin Attributes(m) THEN Failed(r)
    ELSE LET named == UseNameDefault(r, "#c_" \o c.field, AttributeName[c.field])
         IN  IF c.op \notin DOMAIN ConditionArity THEN Failed(named)
             ELSE IF Len(c.values) \notin ConditionArity[c.op] THEN Failed(named)
             ELSE ConditionValueRefs(named, c.values)

RECURSIVE ConditionTerms(_, _, _)
ConditionTerms(m, r, conds) ==
    IF conds = <<>> \/ r.err # None THEN r
    ELSE ConditionTerms(m, ConditionTerm(m, r, Head(conds)), Tail(conds))

\* UpdateBuilder.execute up to the request: the updates into update_values,
\* the conditions into condition_values, then merged_values.
BuilderRequest(m, updates, conditions) ==
    IF BuilderError(m, updates) # None
    THEN Rendering(BuilderError(m, updates), NoDict, NoDict, {}, {})
    ELSE LET updated == BuilderUpdates(Rendering(None, NoDict, NoDict, {}, {}), updates)
             checked == ConditionTerms(m, [updated EXCEPT !.values = NoDict, !.counter = 0],
                                       conditions)
         IN  [checked EXCEPT !.values = checked.values @@ updated.values]

\* ------------------------------------------------- transact_write rendering
\* An action carries its own key, its updates (TransactUpdate) and the
\* caller's expression_attribute_names / expression_attribute_values.
KeyOf(m, action) == [m EXCEPT !.pk_given = action.pk_given, !.sk_given = action.sk_given]

\* The caller's names and values, copied as they are.
CallerRendering(action) ==
    Rendering(None, action.extra_names, SerializeValues(action.extra_values),
              Items(action.extra_names), Items(SerializeValues(action.extra_values)))

\* One pass of the loop of transact_write.
RenderAction(m, action) ==
    CASE action.kind = "Put" -> CallerRendering(action)
      [] action.kind \in {"Delete", "ConditionCheck"} ->
            IF ToKeyError(KeyOf(m, action)) # None
            THEN Failed(Rendering(None, NoDict, NoDict, {}, {}))
            ELSE CallerRendering(action)
      [] action.kind = "Update" ->
            BuildUpdateRequest(KeyOf(m, action), action.updates,
                               action.extra_names, action.extra_values)
      [] OTHER -> Failed(Rendering(None, NoDict, NoDict, {}, {}))

\* transact_items.append({"Put" | "Delete" | "Update" | "ConditionCheck": req})
TransactItem(kind, r) ==
    [kind |-> kind, names |-> r.names, values |-> r.values,
     name_uses |-> r.name_uses, value_uses |-> r.value_uses]

\* transact_write up to the request: the exception, or TransactItems.
TransactItemsSkipping(m, actions) ==
    LET ok == SelectSeq(actions, LAMBDA a : RenderAction(m, a).err = None)
    IN  [err |-> IF actions = <<>> \/ TooMany(Len(actions)) THEN "ValidationError" ELSE None,
         items |-> [i \in 1..Len(ok) |-> TransactItem(ok[i].kind, RenderAction(m, ok[i]))]]
TransactItems(m, actions) ==
    LET bad == FirstBad({i \in 1..Len(actions) : RenderAction(m, actions[i]).err # None})
    IN  IF actions = <<>> \/ TooMany(Len(actions)) \/ bad # 0
        THEN [err |-> "ValidationError", items |-> <<>>]
        ELSE [err |-> None,
              items |-> [i \in 1..Len(actions) |->
                            TransactItem(actions[i].kind, RenderAction(m, actions[i]))]]

\* -------------------------------------------------------- rendering inputs
\* The caller's extra placeholders: fresh ones, and ones spelled like the
\* placeholders _build_update_request generates.
ExtraNames ==
    {NoDict, [k \in {"#c"} |-> "cnt"], [k \in {"#d_count"} |-> "cnt"],
     [k \in {"#d_count"} |-> "labels"], [k \in {"#c", "#d_tags"} |-> "labels"]}
ExtraValues ==
    {NoDict, [k \in {":v"} |-> "9"], [k \in {":d_count"} |-> "9"],
     [k \in {":v", ":d_tags"} |-> "1"]}

Cond(field, op, values) == [field |-> field, op |-> op, values |-> values]

SortConditions ==
    {Absent} \cup {Given(c) : c \in {Cond("sk", "=", <<"1">>),
                                       Cond("sk", "between", <<"1", "2">>),
                                       Cond("sk", "between", <<"1">>),
                                       Cond("sk", "like", <<"1">>)}}

Projections ==
    {Absent} \cup {Given(q) : q \in {<<"pk">>, <<"pk", "sk">>, <<"pk", "sk", "count">>,
                                       <<"sk", "pk", "bogus">>, <<"count", "pk", "count">>}}

FilterConditions ==
    {Cond("count", "=", <<"1">>), Cond("count", "BETWEEN", <<"1", "2">>),
     Cond("tags", "IN", <<"1", "2", "3">>), Cond("count", "EXISTS", <<>>),
     Cond("count", "=", <<>>), Cond("bogus", "=", <<"1">>),
     Cond("count", "LIKE", <<"1">>), Cond("tags", "CONTAINS", <<"2">>)}
Filters == {Absent} \cup {Given(f) : f \in SeqsUpTo(FilterConditions, UpdateCounts)}

BuilderConditions ==
    {Cond("count", "=", <<"1">>), Cond("count", "BETWEEN", <<"1", "2">>),
     Cond("pk", "EXISTS", <<>>), Cond("bogus", "=", <<"1">>)}

\* Builder chains whose operations carry distinct operands.
RenderChains ==
    {<<>>} \cup {<<o>> : o \in BuilderOps}
    \cup {<<[kind |-> "SET", field |-> "count", value |-> "2"], o>> :
            o \in {b \in BuilderOps : b.field \in {"count", "tags"}}}

RenderedAction(kind, p, k, updates, names, values) ==
    [kind |-> kind, pk_given |-> p, sk_given |-> k, updates |-> updates,
     extra_names |-> names, extra_values |-> values]

RenderActionShapes(h) ==
    {RenderedAction("Put", TRUE, h, <<>>, n, NoDict) : n \in {NoDict, [x \in {"#c"} |-> "cnt"]}}
    \cup {RenderedAction(k, p, h, <<>>, NoDict, NoDict) :
            k \in {"Delete", "ConditionCheck", "TransactGet"}, p \in {TRUE}}
    \cup {RenderedAction("Delete", FALSE, h, <<>>, NoDict, NoDict),
          RenderedAction("Update", TRUE, h, <<Entry("pk", "1")>>, NoDict, NoDict)}
    \cup {RenderedAction("Update", TRUE, h, <<Entry("count", "1")>>, n, NoDict) :
            n \in {NoDict, [x \in {"#d_count"} |-> "cnt"]}}

RenderCall(op, h) ==
    [op |-> op, has_sk |-> h, pk_given |-> TRUE, sk_given |-> h, updates |-> <<>>,
     extra_names |-> NoDict, extra_values |-> NoDict, sort |-> Absent,
     projection |-> Absent, filter |-> Absent, conditions |-> <<>>, actions |-> <<>>]

RenderArgs ==
    {[RenderCall("update", h) EXCEPT !.updates = u, !.extra_names = n, !.extra_values = v] :
        h \in BOOLEAN, u \in UpdateMaps, n \in ExtraNames, v \in ExtraValues}
    \cup {[RenderCall("query", h) EXCEPT !.sort = c, !.projection = q, !.filter = f] :
            h \in BOOLEAN, c \in SortConditions, q \in Projections, f \in Filters}
    \cup {[RenderCall("scan", h) EXCEPT !.projection = q, !.filter = f] :
            h \in BOOLEAN, q \in Projections, f \in Filters}
    \cup {[RenderCall("update_builder", h) EXCEPT !.updates = u, !.conditions = c] :
            h \in BOOLEAN, u \in RenderChains,
            c \in SeqsUpTo(BuilderConditions, UpdateCounts)}
    \cup UNION {{[RenderCall("transact_write", h) EXCEPT !.actions = a] :
                    a \in SeqsUpTo(RenderActionShapes(h), 0..MaxActions)} : h \in BOOLEAN}

\* The store answers with success or with a failure code.
RenderStores ==
    {[mode |-> "write", unprocessed |-> <<>>, resp |-> Response(c, <<>>, FALSE, TRUE)] :
        c \in {"", "ProvisionedThroughputExceededException"}}

InitRender ==
    /\ args \in RenderArgs
    /\ store \in RenderStores
    /\ pc = "enter"
    /\ outcome = NoOutcome
    /\ calls = 0
    /\ sleeps = <<>>
    /\ IdleBatch /\ IdleRetry /\ IdleSegments
    /\ cur = NoCursor
    /\ decoded = NoDecoded
    /\ reqs = <<>>
    /\ all_items = <<>>
    /\ reason_codes = <<>>
    /\ table = PlainTable
    /\ kms_calls = <<>>

RenderedRequest(op, items) == [op |-> op, items |-> items]

\* What ends a rendered call: the exception of the builder, or the request
\* and what the response turns into.
Send(op, err, items) ==
    /\ pc = "enter"
    /\ pc' = "done"
    /\ IF err # None
       THEN /\ outcome' = Raise(err)
            /\ UNCHANGED <<calls, reqs>>
       ELSE /\ calls' = calls + 1
            /\ reqs' = Append(reqs, RenderedRequest(op, items))
            /\ outcome' = IF store.resp.code = "" THEN Return
                          ELSE IF op = "transact_write_items"
                               THEN Raise(MapTransactionError(store.resp))
                               ELSE Raise(MapClientError(store.resp.code))
    /\ UNCHANGED <<args, store, sleeps, cur, decoded, all_items, reason_codes>>
    /\ UNCHANGED <<batchVars, retryVars, segVars, kmsVars>>

\* Table.update with expression_attribute_names / expression_attribute_values
UpdateRendered ==
    /\ args.op = "update"
    /\ LET r == BuildUpdateRequest(args, args.updates, args.extra_names, args.extra_values)
       IN  Send("update_item", r.err, <<TransactItem("Update", r)>>)

\* Table.query with sort, projection and filter
QueryRendered ==
    /\ args.op = "query"
    /\ LET r == RenderQuery(args, args.sort, args.projection, args.filter)
       IN  Send("query", r.err, <<TransactItem("Query", r)>>)

\* Table.scan with projection and filter
ScanRendered ==
    /\ args.op = "scan"
    /\ LET r == RenderScan(args, args.projection, args.filter)
       IN  Send("scan", r.err, <<TransactItem("Scan", r)>>)

\* UpdateBuilder.execute with conditions
ExecuteRendered ==
    /\ args.op = "update_builder"
    /\ LET r == BuilderRequest(args, args.updates, args.conditions)
       IN  Send("update_item", r.err, <<TransactItem("Update", r)>>)

\* Table.transact_write with the actions' own placeholders
TransactWriteRendered ==
    /\ args.op = "transact_write"
    /\ LET t == TransactItems(args, args.actions)
       IN  Send("transact_write_items", t.err, t.items)

NextRender ==
    \/ UpdateRendered
    \/ QueryRendered
    \/ ScanRendered
    \/ ExecuteRendered
    \/ TransactWriteRendered

SpecRender == InitRender /\ [][NextRender]_vars

\* --------------------------------------------------------- rendering claims
RenderDone(op) == args.op = op /\ pc = "done"
Sent == pc = "done" /\ reqs # <<>>

\* C22: in every request rendered by the filter, update and condition
\* builders each placeholder is bound exactly once: every name placeholder an
\* expression uses stands, in ExpressionAttributeNames, for the attribute the
\* expression means, and every value placeholder for the operand it means; a
\* call that cannot be rendered so raises ValidationError and sends nothing.
C22_PlaceholdersBoundOnce ==
    /\ Sent =>
         \A i \in 1..Len(reqs[1].items) :
            LET it == reqs[1].items[i]
            IN  /\ \A u \in it.name_uses : u[1] \in DOMAIN it.names /\ it.names[u[1]] = u[2]
                /\ \A u \in it.value_uses : u[1] \in DOMAIN it.values /\ it.values[u[1]] = u[2]
    /\ (pc = "done" /\ reqs = <<>>) => Rejected

C22_Witness ==
    /\ RenderDone("update_builder")
    /\ Sent
    /\ Len(args.updates) = 2
    /\ args.updates[2].kind = "SET" /\ args.updates[2].field = "count"
    /\ Len(args.conditions) = 2

\* A caller-supplied key equal to one _build_update_request generates.
Collides(updates, names, values) ==
    \E i \in 1..Len(updates) :
        \/ UpdateNameRef(updates[i].field) \in DOMAIN names
        \/ updates[i].value # None /\ UpdateValueRef(updates[i].field) \in DOMAIN values

\* The rendered request holds every caller-supplied binding and every
\* generated one.
Merged(it, updates, names, values) ==
    /\ \A k \in DOMAIN names : k \in DOMAIN it.names /\ it.names[k] = names[k]
    /\ \A k \in DOMAIN values : k \in DOMAIN it.values /\ it.values[k] = Serialize(values[k])
    /\ \A i \in 1..Len(updates) :
          /\ UpdateNameRef(updates[i].field) \in DOMAIN it.names
          /\ it.names[UpdateNameRef(updates[i].field)] = AttributeName[updates[i].field]
          /\ updates[i].value # None =>
                /\ UpdateValueRef(updates[i].field) \in DOMAIN it.values
                /\ it.values[UpdateValueRef(updates[i].field)] = Serialize(updates[i].value)

\* C21: in update and in a TransactUpdate every caller-supplied extra name
\* and value placeholder is merged into the request; a caller-supplied name or
\* value key equal to an internally generated one raises ValidationError with
\* no request sent, so a generated binding is never overwritten.
C21_ExtraPlaceholders ==
    /\ RenderDone("update") =>
          /\ Collides(args.updates, args.extra_names, args.extra_values) => Rejected
          /\ Sent => Merged(reqs[1].items[1], args.updates,
                            args.extra_names, args.extra_values)
    /\ RenderDone("transact_write") =>
          \A i \in 1..Len(args.actions) :
             args.actions[i].kind = "Update" =>
                LET a == args.actions[i]
                IN  /\ Collides(a.updates, a.extra_names, a.extra_values) => Rejected
                    /\ Sent => Merged(reqs[1].items[i], a.updates,
                                      a.extra_names, a.extra_values)

C21_Witness ==
    /\ RenderDone("update")
    /\ args.updates = <<Entry("tags", None), Entry("count", "1")>>
    /\ args.extra_names = [k \in {"#c"} |-> "cnt"]
    /\ args.extra_values = [k \in {":d_count"} |-> "9"]
    /\ Rejected

\* The reasons the claim gives for an action that cannot be rendered.
Unrenderable(m, a) ==
    \/ a.kind \notin {"Put", "Delete", "Update", "ConditionCheck"}
    \/ a.kind # "Put" /\ (~a.pk_given \/ a.sk_given # m.has_sk)
    \/ /\ a.kind = "Update"
       /\ \/ \E i \in 1..Len(a.updates) : IsKeyField(m, a.updates[i].field)
          \/ Collides(a.updates, a.extra_names, a.extra_values)

\* C27: transact_write renders the whole action list into exactly one
\* transact_write_items request whose TransactItems has the length and the
\* order of the actions; if any action fails validation no request is sent.
C27_OneRequest ==
    RenderDone("transact_write") =>
        /\ calls <= 1 /\ Len(reqs) = calls
        /\ Sent =>
              /\ reqs[1].op = "transact_write_items"
              /\ Len(reqs[1].items) = Len(args.actions)
              /\ \A i \in 1..Len(args.actions) :
                    i <= Len(reqs[1].items) =>
                      /\ reqs[1].items[i].kind = args.actions[i].kind
                      /\ Items(args.actions[i].extra_names) \subseteq reqs[1].items[i].name_uses
        /\ (\E i \in 1..Len(args.actions) : Unrenderable(args, args.actions[i])) => Rejected

C27_Witness ==
    /\ RenderDone("transact_write")
    /\ Sent
    /\ Len(args.actions) = 3
    /\ args.actions[1].kind = "Update"
    /\ args.actions[2] = RenderedAction("Put", TRUE, args.has_sk, <<>>,
                                        [x \in {"#c"} |-> "cnt"], NoDict)
    /\ args.actions[3].kind = "ConditionCheck"

\* ============================== Table construction and envelope encryption
\* The model has the key fields pk and sk and the plain fields secret and
\* token; a call names which of the two are encrypted, which omitempty and
\* which set-typed. A value is "" (empty: no text, or the empty set) or "s".
DataFields == <<"secret", "token">>

NoTable == [constructed |-> FALSE, table_name |-> None, kms_key_arn |-> None,
            kms_client |-> None]

\* (kms_key_arn or "").strip() or None
Strip == ("" :> "") @@ ("  " :> "") @@ ("arn:key" :> "arn:key") @@ (" arn:key " :> "arn:key")
KmsKeyArnUnstripped(arn) == IF arn = None \/ arn = "" THEN None ELSE arn
KmsKeyArn(arn) == IF arn = None \/ Strip[arn] = "" THEN None ELSE Strip[arn]

\* table_name, or model.table_name when None
TableName(a) == IF a.table_name = None THEN a.model_table_name ELSE a.table_name

\* any(attr.encrypted for attr in self._model.attributes.values())
AnyEncrypted(a) == a.encrypted # {}

\* Table.__init__: the exception it raises, or None.
InitError(a) ==
    IF TableName(a) \in {None, ""} THEN "ValueError"
    ELSE IF AnyEncrypted(a) /\ KmsKeyArn(a.kms_key_arn) = None
         THEN "EncryptionNotConfiguredError"
    ELSE None

\* The fields of the Table after __init__.
NewTable(a) ==
    [constructed |-> TRUE, table_name |-> TableName(a),
     kms_key_arn |-> KmsKeyArn(a.kms_key_arn),
     kms_client |-> IF a.kms_client # None THEN a.kms_client
                    ELSE IF AnyEncrypted(a) THEN "boto3.client(kms)" ELSE None]

\* _is_empty of a text value
IsEmpty(v) == v = ""

\* _to_item: the fields whose value goes through _serialize_attr_value, in
\* the order of the model's attributes.
Written(a, item) ==
    SelectSeq(DataFields, LAMBDA f : ~(f \in a.omitempty /\ IsEmpty(item[f])))

\* _serialize_attr_value: `if attr_def.set and isinstance(value, set) and
\* len(value) == 0: return self._serializer.serialize(None)`, before the
\* branch of the encrypted fields.
EmptySet(a, f, v) == f \in a.sets /\ IsEmpty(v)

\* ... and of the written fields the ones that reach encrypt_attribute_value.
EncryptedWritten(a, item) ==
    SelectSeq(Written(a, item), LAMBDA f : f \in a.encrypted /\ ~EmptySet(a, f, item[f]))

\* `if not self._kms_key_arn or self._kms_client is None`
NotConfigured(t) == t.kms_key_arn = None \/ t.kms_client = None

\* One call of the key-management client: the operation and the data key it
\* returns or unwraps. A generated key is named by the ordinal of its call.
KmsCall(op, key) == [op |-> op, key |-> key]

\* encrypt_attribute_value: one generate_data_key call, the envelope holds
\* the wrapped key of that call.
Envelope(key, av) == [kind |-> "envelope", edk |-> key, ct |-> av]
GenerateCalls(before, n) == [i \in 1..n |-> KmsCall("generate_data_key", before + i)]

\* The i-th field among fs, 0 if it is not there.
Position(fs, f) == FirstBad({i \in 1..Len(fs) : fs[i] = f})

\* _to_item for the data fields: field -> wire value, for the written ones.
ToItem(a, item, before) ==
    LET enc == EncryptedWritten(a, item)
        fields == {Written(a, item)[i] : i \in 1..Len(Written(a, item))}
    IN  [f \in fields |->
            IF EmptySet(a, f, item[f]) THEN [kind |-> "null", edk |-> 0, ct |-> NoneV]
            ELSE IF f \in a.encrypted
            THEN Envelope(before + Position(enc, f), AttrS(item[f]))
            ELSE [kind |-> "plain", edk |-> 0, ct |-> AttrS(item[f])]]

\* _from_item: the encrypted fields present in the item, in field order; the
\* first whose wire value is no envelope map raises ValidationError.
EncryptedRead(a, wire) ==
    SelectSeq(DataFields, LAMBDA f : f \in DOMAIN wire /\ f \in a.encrypted)
NotEnvelope(a, wire) ==
    FirstBad({i \in 1..Len(EncryptedRead(a, wire)) :
                 wire[EncryptedRead(a, wire)[i]].kind # "envelope"})

\* decrypt_attribute_value: one decrypt call per envelope read.
DecryptCalls(a, wire) ==
    LET enc == EncryptedRead(a, wire)
        n == IF NotEnvelope(a, wire) = 0 THEN Len(enc) ELSE NotEnvelope(a, wire) - 1
    IN  [i \in 1..n |-> KmsCall("decrypt", wire[enc[i]].edk)]

\* ------------------------------------------------------------ table inputs
KmsKeyArns == {None, "  ", "arn:key", " arn:key "}

TableArgs ==
    {[op |-> "table", encrypted |-> e, omitempty |-> o, sets |-> z,
      model_table_name |-> m,
      table_name |-> t, kms_key_arn |-> k, kms_client |-> c] :
        e \in SUBSET {"secret", "token"}, o \in {{}, {"secret", "token"}},
        z \in {{}, {"token"}},
        m \in {None, "notes"}, t \in {None, "", "t"}, k \in KmsKeyArns,
        c \in {None, "kms"}}

ItemsToPut == [{"secret", "token"} -> {"", "s"}]

InitTable ==
    /\ args \in TableArgs
    /\ store = NoStore
    /\ pc = "new"
    /\ outcome = NoOutcome
    /\ calls = 0
    /\ sleeps = <<>>
    /\ IdleBatch /\ IdleRetry /\ IdleSegments
    /\ cur = NoCursor
    /\ decoded = NoDecoded
    /\ reqs = <<>>
    /\ all_items = <<>>
    /\ reason_codes = <<>>
    /\ table = NoTable
    /\ kms_calls = <<>>

\* Table(model, table_name=..., kms_key_arn=..., kms_client=...)
Construct ==
    /\ pc = "new"
    /\ IF InitError(args) # None
       THEN /\ pc' = "failed"
            /\ outcome' = Raise(InitError(args))
            /\ table' = NoTable
       ELSE /\ pc' = "ready"
            /\ outcome' = Return
            /\ table' = NewTable(args)
    /\ UNCHANGED <<args, store, calls, sleeps, kms_calls>>
    /\ UNCHANGED <<batchVars, retryVars, segVars, opVars>>

PutRequest(item, wire) == [op |-> "put_item", item |-> item, Item |-> wire]

\* Table.put(item): _to_item with its encryptions, then put_item.
Put ==
    /\ pc = "ready"
    /\ Len(reqs) < MaxPuts
    /\ \E item \in ItemsToPut, code \in {"", "ConditionalCheckFailedException"} :
          IF EncryptedWritten(args, item) # <<>> /\ NotConfigured(table)
          THEN /\ outcome' = Raise("EncryptionNotConfiguredError")
               /\ UNCHANGED <<calls, reqs, kms_calls>>
          ELSE /\ kms_calls' = kms_calls \o
                      GenerateCalls(Len(kms_calls), Len(EncryptedWritten(args, item)))
               /\ calls' = calls + 1
               /\ reqs' = Append(reqs, PutRequest(item, ToItem(args, item, Len(kms_calls))))
               /\ outcome' = IF code = "" THEN Return ELSE Raise(MapClientError(code))
    /\ UNCHANGED <<args, store, pc, sleeps, table, cur, decoded, all_items, reason_codes>>
    /\ UNCHANGED <<batchVars, retryVars, segVars>>

\* Table.get(pk, sk): get_item answers with the item written last (or with
\* none), then _from_item with its decryptions.
Get ==
    /\ pc = "ready"
    /\ calls - Len(reqs) < MaxPuts
    /\ calls' = calls + 1
    /\ \E i \in {0, Len(reqs)} :
          IF i = 0
          THEN /\ outcome' = Raise("NotFoundError")
               /\ UNCHANGED kms_calls
          ELSE IF EncryptedRead(args, reqs[i].Item) # <<>> /\ NotConfigured(table)
          THEN /\ outcome' = Raise("EncryptionNotConfiguredError")
               /\ UNCHANGED kms_calls
          ELSE /\ kms_calls' = kms_calls \o DecryptCalls(args, reqs[i].Item)
               /\ outcome' = IF NotEnvelope(args, reqs[i].Item) = 0 THEN Return
                             ELSE Raise("ValidationError")
    /\ UNCHANGED <<args, store, pc, sleeps, table, opVars>>
    /\ UNCHANGED <<batchVars, retryVars, segVars>>

NextTable == Construct \/ Put \/ Get

SpecTable == InitTable /\ [][NextTable]_vars

\* ------------------------------------------------------------ table claims
Blank(arn) == arn \in {None, "", "  "}
NoTableName ==
    args.table_name = "" \/ (args.table_name = None /\ args.model_table_name = None)

\* C23 (as claimed): constructing a Table for a model with an encrypted field
\* and no or a blank kms_key_arn raises EncryptionNotConfiguredError at
\* construction, before any operation runs.
C23_Original ==
    (pc # "new" /\ AnyEncrypted(args) /\ Blank(args.kms_key_arn)) =>
        /\ pc = "failed"
        /\ outcome = Raise("EncryptionNotConfiguredError")
        /\ calls = 0 /\ kms_calls = <<>>

\* C23 (amended): that construction always fails before any operation runs,
\* with ValueError when no table name is given or configured and with
\* EncryptionNotConfiguredError otherwise; hence the key-management client is
\* only ever called by a Table that holds an encryption configuration, and
\* no operation of a constructed Table raises EncryptionNotConfiguredError.
C23_EagerConfiguration ==
    /\ (pc # "new" /\ AnyEncrypted(args) /\ Blank(args.kms_key_arn)) =>
          /\ pc = "failed"
          /\ outcome = Raise(IF NoTableName THEN "ValueError"
                             ELSE "EncryptionNotConfiguredError")
          /\ calls = 0 /\ kms_calls = <<>>
    /\ kms_calls # <<>> =>
          table.constructed /\ table.kms_key_arn = "arn:key" /\ table.kms_client # None
    /\ pc = "ready" => outcome # Raise("EncryptionNotConfiguredError")

C23_Witness ==
    /\ pc = "failed"
    /\ args.encrypted = {"token"}
    /\ args.kms_key_arn = "  "
    /\ args.kms_client = "kms"
    /\ outcome = Raise("EncryptionNotConfiguredError")

\* C24 (as claimed): every write of an encrypted field generates its own data
\* key: a put of a record with k encrypted fields that are not omitted makes
\* exactly k generate_data_key calls and no decrypt call, and no data key of
\* one field write is used for another.
WrittenEncrypted(item) ==
    {f \in args.encrypted : ~(f \in args.omitempty /\ item[f] = "")}

C24_KeyPerWrite ==
    /\ [](\A i, j \in 1..Len(reqs) :
            \A f \in DOMAIN reqs[i].Item, g \in DOMAIN reqs[j].Item :
               (reqs[i].Item[f].kind = "envelope" /\ reqs[j].Item[g].kind = "envelope"
                /\ <<i, f>> # <<j, g>>) => reqs[i].Item[f].edk # reqs[j].Item[g].edk)
    /\ [][Len(reqs') = Len(reqs) + 1 =>
            /\ Len(kms_calls') = Len(kms_calls)
                                 + Cardinality(WrittenEncrypted(reqs'[Len(reqs')].item))
            /\ \A i \in Len(kms_calls) + 1..Len(kms_calls') :
                  kms_calls'[i].op = "generate_data_key"]_vars

\* ============================================================ error mapping
\* What the client does with a request: it answers, it raises ClientError
\* with the Error.Code and Error.Message of the store's response, or it
\* raises another botocore exception (no response was obtained).
Answer == [kind |-> "ok", code |-> "", message |-> ""]
ClientError(code, message) == [kind |-> "ClientError", code |-> code, message |-> message]
EndpointConnectionError ==
    [kind |-> "EndpointConnectionError", code |-> "", message |-> "could not connect"]

\* str(err) of a ClientError
StrErr == "An error occurred"

\* The exception a call ends with, with the code and message it carries.
Exception(kind, code, message) ==
    [kind |-> "raise", error |-> kind, code |-> code, message |-> message]
Returned == [kind |-> "return", error |-> None, code |-> None, message |-> None]

\* _map_client_error with the arguments of the exception it builds:
\* AwsError(code=code or "UnknownError", message=message or str(err)).
MapClientErrorFull(code, message) ==
    IF MapClientError(code) = "AwsError"
    THEN Exception("AwsError", IF code = "" THEN "UnknownError" ELSE code,
                   IF message = "" THEN StrErr ELSE message)
    ELSE Exception(MapClientError(code), None, message)

\* _map_transaction_error for a response without cancellation reasons
MapTransactionErrorFull(code, message) ==
    IF code = Canceled
    THEN Exception(MapTransactionError(Response(code, <<>>, FALSE, FALSE)), None,
                   IF message = "" THEN "transaction canceled" ELSE message)
    ELSE MapClientErrorFull(code, message)

\* `try: self._client.<op>(...) except ClientError as err: raise <map>(err)`
AfterCall(r, mapped) ==
    CASE r.kind = "ok" -> Returned
      [] r.kind = "ClientError" -> mapped
      [] OTHER -> Exception(r.kind, None, r.message)

\* ------------------------------------------------------------ error inputs
ErrorCodes ==
    {"ConditionalCheckFailedException", "ValidationException", "ResourceNotFoundException",
     Canceled, "ProvisionedThroughputExceededException", "InternalServerError", ""}

ClientBehaviours ==
    {Answer, EndpointConnectionError}
    \cup {ClientError(c, m) : c \in ErrorCodes, m \in {"", "boom"}}

\* The operations that map a ClientError with _map_client_error.
MappedOps ==
    {"query", "scan", "batch_get", "batch_write", "put", "get", "delete", "update",
     "execute"}

InitErrors ==
    /\ args \in {[op |-> o] : o \in MappedOps \cup {"transact_write"}}
    /\ store \in {[mode |-> "errors", unprocessed |-> <<>>, resp |-> r] :
                     r \in ClientBehaviours}
    /\ pc = "enter"
    /\ outcome = NoOutcome
    /\ calls = 0
    /\ sleeps = <<>>
    /\ IdleBatch /\ IdleRetry /\ IdleSegments
    /\ cur = NoCursor
    /\ decoded = NoDecoded
    /\ reqs = <<>>
    /\ all_items = <<>>
    /\ reason_codes = <<>>
    /\ table = PlainTable
    /\ kms_calls = <<>>

\* One call of the client by one of the operations of MappedOps.
CallMapped ==
    /\ pc = "enter"
    /\ args.op \in MappedOps
    /\ pc' = "done"
    /\ calls' = calls + 1
    /\ outcome' = AfterCall(store.resp,
                            MapClientErrorFull(store.resp.code, store.resp.message))
    /\ UNCHANGED <<args, store, sleeps>>
    /\ UNCHANGED <<batchVars, retryVars, segVars, opVars, kmsVars>>

\* The call of transact_write_items by transact_write.
CallTransact ==
    /\ pc = "enter"
    /\ args.op = "transact_write"
    /\ pc' = "done"
    /\ calls' = calls + 1
    /\ outcome' = AfterCall(store.resp,
                            MapTransactionErrorFull(store.resp.code, store.resp.message))
    /\ UNCHANGED <<args, store, sleeps>>
    /\ UNCHANGED <<batchVars, retryVars, segVars, opVars, kmsVars>>

NextErrors == CallMapped \/ CallTransact

SpecErrors == InitErrors /\ [][NextErrors]_vars

\* ------------------------------------------------------------ error claims
Taxonomy ==
    {"ValidationError", "ConditionFailedError", "NotFoundError",
     "EncryptionNotConfiguredError", "TransactionCanceledError",
     "BatchRetryExceededError", "AwsError"}

\* C25 (as claimed): every failure of a call to the store reaches the caller
\* as one kind of the error taxonomy: ConditionalCheckFailedException,
\* ValidationException and ResourceNotFoundException become
\* ConditionFailedError, ValidationError and NotFoundError, every other code
\* becomes the remote-store error carrying the original code and message
\* unchanged, and no bare transport exception escapes.
C25_ErrorTaxonomy ==
    (pc = "done" /\ store.resp.kind # "ok") =>
        /\ outcome.kind = "raise"
        /\ outcome.error \in Taxonomy
        /\ store.resp.kind = "ClientError" =>
              CASE store.resp.code = "ConditionalCheckFailedException" ->
                      outcome.error = "ConditionFailedError"
                [] store.resp.code = "ValidationException" ->
                      outcome.error = "ValidationError"
                [] store.resp.code = "ResourceNotFoundException" ->
                      outcome.error = "NotFoundError"
                [] OTHER -> /\ outcome.error = "AwsError"
                            /\ outcome.code = store.resp.code
                            /\ outcome.message = store.resp.message

\* ========================================================= model definition
\* ModelDefinition.from_dataclass(record type): the description is the
\* sequence of the type's fields, each with its roles and its encrypted flag.
Field(roles, encrypted) == [roles |-> roles, encrypted |-> encrypted]

WithRole(desc, role) == {i \in 1..Len(desc) : role \in desc[i].roles}

\* "exactly one pk"
AtLeastOnePk(n) == n >= 1
ExactlyOnePk(n) == n = 1

\* The validation of from_dataclass: the exception, or None.
DefinitionError(desc) ==
    IF ~ExactlyOnePk(Cardinality(WithRole(desc, "pk"))) THEN "ModelDefinitionError"
    ELSE IF Cardinality(WithRole(desc, "sk")) > 1 THEN "ModelDefinitionError"
    ELSE IF \E i \in WithRole(desc, "pk") \cup WithRole(desc, "sk") : desc[i].encrypted
         THEN "ModelDefinitionError"
    ELSE None

\* The Model: its pk, its sk (0: none) and its attributes.
Model(desc) ==
    [kind |-> "model",
     pk |-> CHOOSE i \in WithRole(desc, "pk") : \A j \in WithRole(desc, "pk") : i <= j,
     sk |-> FirstBad(WithRole(desc, "sk")),
     attributes |-> desc]

FieldKinds == {Field(r, e) : r \in SUBSET {"pk", "sk"}, e \in BOOLEAN}

InitModel ==
    /\ args \in {[op |-> "from_dataclass", fields |-> d] :
                    d \in SeqsUpTo(FieldKinds, 0..MaxFields)}
    /\ store = NoStore
    /\ pc = "enter"
    /\ outcome = NoOutcome
    /\ calls = 0
    /\ sleeps = <<>>
    /\ IdleBatch /\ IdleRetry /\ IdleSegments
    /\ cur = NoCursor
    /\ decoded = NoDecoded
    /\ reqs = <<>>
    /\ all_items = <<>>
    /\ reason_codes = <<>>
    /\ table = PlainTable
    /\ kms_calls = <<>>

\* ModelDefinition.from_dataclass
FromDataclass ==
    /\ pc = "enter"
    /\ pc' = "done"
    /\ IF DefinitionError(args.fields) # None
       THEN /\ outcome' = Raise(DefinitionError(args.fields))
            /\ UNCHANGED result
       ELSE /\ outcome' = Return
            /\ result' = Model(args.fields)
    /\ UNCHANGED <<args, store, calls, sleeps, attempt, delay, last_page, log>>
    /\ UNCHANGED <<batchVars, segVars, opVars, kmsVars>>

NextModel == FromDataclass

SpecModel == InitModel /\ [][NextModel]_vars

\* C26: every successfully constructed Model has exactly one field with role
\* pk and at most one with role sk; constructing a Model from a description
\* with zero or several pk fields, or with several sk fields, fails with
\* ModelDefinitionError.
C26_KeyRoles ==
    pc = "done" =>
        /\ outcome = Return =>
              /\ result.kind = "model"
              /\ Cardinality({i \in 1..Len(result.attributes) :
                                 "pk" \in result.attributes[i].roles}) = 1
              /\ Cardinality({i \in 1..Len(result.attributes) :
                                 "sk" \in result.attributes[i].roles}) <= 1
        /\ (\/ Cardinality({i \in 1..Len(args.fields) : "pk" \in args.fields[i].roles}) # 1
            \/ Cardinality({i \in 1..Len(args.fields) : "sk" \in args.fields[i].roles}) > 1)
              => outcome = Raise("ModelDefinitionError")

C26_Witness ==
    /\ pc = "done"
    /\ Len(args.fields) = 3
    /\ args.fields[1].roles = {"pk"} /\ args.fields[3].roles = {"pk"}
    /\ outcome = Raise("ModelDefinitionError")

\* ==================================================== claims on batch keys
InvalidKey == args.bad_at > 0 /\ args.max_retries >= 0

\* C28: when one of the keys handed to batch_get / batch_write is invalid
\* (wrong tuple shape, pk None, sk missing on a pk+sk model, sk given on a
\* pk-only model), no remote call is ever issued and the call ends raising
\* ValidationError, also when the keys span more than one chunk.
C28_ValidatedBeforeCalls ==
    InvalidKey =>
        /\ calls = 0
        /\ pc = "done" => outcome = Raise("ValidationError")

\* ===================================== claims on the end of a retried read
\* The read and its verify of the last attempt made raised this error.
FinalAttemptRaised(e) ==
    /\ log # <<>>
    /\ \/ Last(log).read.kind = "raise" /\ Last(log).read.error = e
       \/ Last(log).read.kind = "page" /\ Last(log).verify = "raise"
          /\ e = "VerifyError"

\* C29: with max_retries >= 0, query_with_retry / scan_with_retry never
\* reach the failure after the loop: last_page is set whenever the loop is
\* left, and the call ends returning a page or raising the exception of the
\* last attempt it made, after at most max_retries + 1 reads and at most
\* max_retries sleeps.
C29_ExhaustedUnreachable ==
    args.max_retries >= 0 =>
        /\ Len(log) <= args.max_retries + 1
        /\ calls <= args.max_retries + 1
        /\ Len(sleeps) <= args.max_retries
        /\ pc = "after_loop" => last_page # NoPage
        /\ pc = "done" =>
              \/ outcome = Return /\ result.kind = "page"
              \/ outcome.kind = "raise" /\ FinalAttemptRaised(outcome.error)

\* Every attempt was used, an earlier one raised, and the last page, though
\* empty, is returned after the loop.
C29_Witness ==
    /\ pc = "done"
    /\ args.max_retries = MaxRetriesRead
    /\ Len(log) = args.max_retries + 1
    /\ log[1].read.kind = "raise"
    /\ args.retry_on_empty /\ ~args.has_verify
    /\ Last(log).read.kind = "page"
    /\ Last(log).read.empty
    /\ Last(log).attempt = args.max_retries
    /\ PageReads # {}
    /\ outcome = Return
    /\ result = last_page
    /\ Len(sleeps) = args.max_retries

\* ============================================ claims on batch termination
BatchCallBounds ==
    args.max_retries >= 0 =>
        /\ chunk_calls <= args.max_retries + 1
        /\ Len(chunk_sleeps) <= args.max_retries
        /\ attempts <= args.max_retries
        /\ calls <= Len(chunks) * (args.max_retries + 1)
        /\ Len(sleeps) <= Len(chunks) * args.max_retries
        /\ Len(chunks) = CeilDiv(Len(args.items), BatchMax(args.op)) \/ pc = "enter"
        /\ pc = "for_chunk" => pending = <<>> /\ last_resp = <<>>

ChunkStarted ==
    chunk_idx' # chunk_idx =>
        /\ attempts' = 0
        /\ chunk_idx' = chunk_idx + 1
        /\ pending = <<>> /\ last_resp = <<>>
        /\ pending' = chunks[chunk_idx']

\* C30: batch_get / batch_write end whatever the store answers. The retry
\* counter starts at 0 in every chunk, so a call over C chunks makes at most
\* C * (max_retries + 1) remote calls and at most C * max_retries sleeps, a
\* chunk is started only when the previous one has nothing unprocessed left,
\* and the call ends (returning, or raising BatchRetryExceededError or the
\* error of a failed remote call).
C30_BatchTerminates ==
    /\ []BatchCallBounds
    /\ [][ChunkStarted]_vars
    /\ <>(pc = "done")

\* Two chunks, each using every allowed call and sleep.
C30_Witness ==
    /\ pc = "done"
    /\ Len(chunks) = 2
    /\ chunk_idx = 2
    /\ args.max_retries = MaxRetriesAny
    /\ args.has_sleep
    /\ calls = 2 * (args.max_retries + 1)
    /\ Len(sleeps) = 2 * args.max_retries
    /\ chunk_calls = args.max_retries + 1
    /\ outcome \in {Return, BatchRetryExceededError(args.op, 1)}

====
